---- MODULE Spec2Model ----
(***************************************************************************)
(* Model of the Seek scraper: the card-listing service                     *)
(* (seek_scraper_ids.py) and the detail/batch service (seek_scraper_jc.py).*)
(*                                                                         *)
(* Seven specifications share the module:                                  *)
(*   FuncSpec    - the pure helpers applied to sampled arguments;          *)
(*   Spec        - one /scrape_ids invocation: constructor, pagination     *)
(*                 walk, fetch with retry/backoff/repair, __aexit__;       *)
(*   LiveSpec    - Spec under weak fairness of its steps;                  *)
(*   BatchSpec   - one /scrape_batch_jc invocation: constructor, the loop  *)
(*                 over job ids, extract_job_details field by field,       *)
(*                 __aexit__;                                              *)
(*   WebhookSpec - the background task of /scrape_webhook_jc: the same     *)
(*                 loop, then the delivery to the webhook;                 *)
(*   FetchSpec   - _fetch_with_selenium statement by statement: the        *)
(*                 executor calls, the except branches, the repair;        *)
(*   ConcSpec    - several invocations in progress at once, each with its  *)
(*                 own scraper object and browser.                         *)
(*                                                                         *)
(* Text is a sequence of one-character strings, so that lower(), replace(),*)
(* strip(), "in" and re.match are computed, not assumed.                   *)
(***************************************************************************)
EXTENDS Integers, Sequences, FiniteSets, TLC

\* ---------------------------------------------------------------- bounds
\* Largest number of cards on result pages over one walk.
MaxCards == 3
\* Largest number of result pages the modelled site serves.
MaxPages == 2
\* Largest number of job ids in one batch request.
MaxBatch == 2
\* Largest number of field extractions that raise during one invocation.
MaxFaults == 1
\* largest count in a generated posting-age text
MaxAge == 120
\* largest max_retries of a fetch run on a given sequence of attempt outcomes
MaxAttempts == 3
\* fetch_page calls of one scraper object followed step by step
MaxFetches == 2
\* API calls in progress at once
MaxCalls == 2
\* navigation attempts one of these calls makes
MaxNavs == 2

\* ------------------------------------------------------- python values
\* Python's None, kept apart from every text (a text holds only characters).
None == <<"<None>">>

\* Python truthiness of an optional text: None and "" are falsy.
Truthy(s) == s # None /\ s # <<>>

\* ---------------------------------------------------------------- text
UpperCase == <<"A","B","C","D","E","F","G","H","I","J","K","L","M","N","O","P","Q","R","S","T","U","V","W","X","Y","Z">>
LowerCase == <<"a","b","c","d","e","f","g","h","i","j","k","l","m","n","o","p","q","r","s","t","u","v","w","x","y","z">>
Digits == <<"0","1","2","3","4","5","6","7","8","9">>
Whitespace == {" ", "\t", "\n"}

\* str.lower() on one character.
LowerChar(c) ==
    IF \E i \in 1..Len(UpperCase) : UpperCase[i] = c
    THEN LowerCase[CHOOSE i \in 1..Len(UpperCase) : UpperCase[i] = c]
    ELSE c

\* str.lower()
lower(s) == [i \in 1..Len(s) |-> LowerChar(s[i])]

\* sub in s
Contains(s, sub) ==
    \E i \in 1..(Len(s) - Len(sub) + 1) : SubSeq(s, i, i + Len(sub) - 1) = sub

\* s.replace(old, ""): every non-overlapping occurrence, left to right.
RECURSIVE remove(_, _)
remove(s, old) ==
    IF Len(s) < Len(old) THEN s
    ELSE IF SubSeq(s, 1, Len(old)) = old
         THEN remove(SubSeq(s, Len(old) + 1, Len(s)), old)
         ELSE <<s[1]>> \o remove(Tail(s), old)

\* str.lstrip() / str.rstrip() / str.strip()
RECURSIVE lstrip(_)
lstrip(s) == IF s # <<>> /\ s[1] \in Whitespace THEN lstrip(Tail(s)) ELSE s
RECURSIVE rstrip(_)
rstrip(s) ==
    IF s # <<>> /\ s[Len(s)] \in Whitespace THEN rstrip(SubSeq(s, 1, Len(s) - 1)) ELSE s
strip(s) == rstrip(lstrip(s))

IsDigit(c) == \E i \in 1..Len(Digits) : Digits[i] = c
DigitValue(c) == (CHOOSE i \in 1..Len(Digits) : Digits[i] = c) - 1

\* Length of the longest prefix of s matched by \d+ (0: no match).
RECURSIVE DigitRun(_)
DigitRun(s) == IF s # <<>> /\ IsDigit(s[1]) THEN 1 + DigitRun(Tail(s)) ELSE 0

\* float(value) of a digit string (exact: the sampled values are small).
RECURSIVE DigitsValue(_)
DigitsValue(s) ==
    IF s = <<>> THEN 0
    ELSE 10 * DigitsValue(SubSeq(s, 1, Len(s) - 1)) + DigitValue(s[Len(s)])

\* A pattern that lost its unit group: (\d+) alone, the count read as days.
time_match_count_only(s) ==
    LET n == DigitRun(s)
    IN  IF n = 0 THEN <<>> ELSE <<DigitsValue(SubSeq(s, 1, n)), "d">>

\* re.match(r'(\d+)\s*([mhd])', s): <<>> when there is no match, else
\* <<value, unit>>.  \d+ is greedy and nothing it could give back matches
\* \s or [mhd], so the digit run is the longest one.
time_match(s) ==
    LET n == DigitRun(s)
        rest == lstrip(SubSeq(s, n + 1, Len(s)))
    IN  IF n = 0 \/ rest = <<>> \/ rest[1] \notin {"m", "h", "d"}
        THEN <<>>
        ELSE <<DigitsValue(SubSeq(s, 1, n)), rest[1]>>

\* ------------------------------------------------------- TimeNormalizer
\* A day count is a fraction num/den; float('inf') has den = 0.
Inf == [num |-> 1, den |-> 0]
Frac(n, d) == [num |-> n, den |-> d]

\* a < b on day counts (Python float comparison, inf included).
DaysLt(a, b) ==
    IF a.den = 0 THEN FALSE
    ELSE IF b.den = 0 THEN TRUE
    ELSE a.num * b.den < b.num * a.den

\* a == b on day counts.
DaysEq(a, b) ==
    IF a.den = 0 \/ b.den = 0 THEN a.den = b.den
    ELSE a.num * b.den = b.num * a.den

TxtPosted == <<"p","o","s","t","e","d">>
TxtNotFound == <<"n","o","t"," ","f","o","u","n","d">>
PostingTimeNotFound == <<"P","o","s","t","i","n","g"," ","t","i","m","e"," ","n","o","t"," ","f","o","u","n","d">>

\* A conversion that divides hours by 12.
convert_to_days_half_day_hours(posted_time) ==
    IF ~Truthy(posted_time) \/ Contains(posted_time, TxtNotFound) THEN Inf
    ELSE LET cleaned_posted_time == strip(remove(lower(posted_time), TxtPosted))
             match == time_match(cleaned_posted_time)
         IN  IF match = <<>> THEN Inf
             ELSE IF match[2] = "m" THEN Frac(match[1], 24 * 60)
             ELSE IF match[2] = "h" THEN Frac(match[1], 12)
             ELSE Frac(match[1], 1)

\* A conversion that takes a text without a readable age for an age of zero.
convert_to_days_unknown_is_new(posted_time) ==
    IF ~Truthy(posted_time) \/ Contains(posted_time, TxtNotFound) THEN Frac(0, 1)
    ELSE LET cleaned_posted_time == strip(remove(lower(posted_time), TxtPosted))
             match == time_match(cleaned_posted_time)
         IN  IF match = <<>> THEN Frac(0, 1)
             ELSE IF match[2] = "m" THEN Frac(match[1], 24 * 60)
             ELSE IF match[2] = "h" THEN Frac(match[1], 24)
             ELSE Frac(match[1], 1)

\* _convert_to_days(posted_time)
_convert_to_days(posted_time) ==
    IF ~Truthy(posted_time) \/ Contains(posted_time, TxtNotFound) THEN Inf
    ELSE LET cleaned_posted_time == strip(remove(lower(posted_time), TxtPosted))
             match == time_match(cleaned_posted_time)
         IN  IF match = <<>> THEN Inf
             ELSE IF match[2] = "m" THEN Frac(match[1], 24 * 60)
             ELSE IF match[2] = "h" THEN Frac(match[1], 24)
             ELSE Frac(match[1], 1)

\* A slip the comparison could have: a posting exactly as old as the limit passes.
is_within_time_limit_inclusive(posted_date, posted_date_limit) ==
    IF ~Truthy(posted_date_limit) THEN TRUE
    ELSE ~DaysLt(_convert_to_days(posted_date_limit), _convert_to_days(posted_date))

\* _is_within_time_limit(posted_date, posted_date_limit)
_is_within_time_limit(posted_date, posted_date_limit) ==
    IF ~Truthy(posted_date_limit) THEN TRUE
    ELSE DaysLt(_convert_to_days(posted_date), _convert_to_days(posted_date_limit))

\* ------------------------------------------------------- sampled texts
T2h == <<"P","o","s","t","e","d"," ","2","h"," ","a","g","o">>
T120m == <<"P","o","s","t","e","d"," ","1","2","0","m"," ","a","g","o">>
T1d == <<"P","o","s","t","e","d"," ","1","d"," ","a","g","o">>
T24h == <<"P","o","s","t","e","d"," ","2","4","h"," ","a","g","o">>
T5d == <<"P","o","s","t","e","d"," ","5","d"," ","a","g","o">>
TUpper2h == <<" "," ","P","O","S","T","E","D"," ","2","H"," ","A","G","O"," ">>
T30plus == <<"P","o","s","t","e","d"," ","3","0","+"," ","d","a","y","s"," ","a","g","o">>
TJustNow == <<"j","u","s","t"," ","n","o","w">>
T3dSpaced == <<"3"," ","d"," ","a","g","o">>
L1d == <<"1","d"," ","a","g","o">>
L2h == <<"2","h"," ","a","g","o">>
LSoon == <<"s","o","o","n">>

\* Posting-age texts a card or a caller can hold.
PostedTexts ==
    {None, <<>>, T2h, T120m, T1d, T24h, T5d, TUpper2h, T30plus, TJustNow,
     T3dSpaced, PostingTimeNotFound}

\* posted_date_limit values of a request (Optional[str] = None).
LimitTexts == {None, <<>>, L1d, L2h, T24h, T5d, LSoon, T30plus, PostingTimeNotFound}

\* str.upper() on one character / on a text.
UpperChar(c) ==
    IF \E i \in 1..Len(LowerCase) : LowerCase[i] = c
    THEN UpperCase[CHOOSE i \in 1..Len(LowerCase) : LowerCase[i] = c]
    ELSE c

upper(s) == [i \in 1..Len(s) |-> UpperChar(s[i])]

\* str(n) for a non-negative integer n.
RECURSIVE Str(_)
Str(n) == IF n < 10 THEN <<Digits[n + 1]>> ELSE Str(n \div 10) \o <<Digits[(n % 10) + 1]>>

\* Posting-age texts as the site writes them, and variations of them: a count
\* n of unit m/h/d, with or without the "Posted" prefix, in either letter
\* case, with or without surrounding whitespace, with or without a blank
\* between count and unit.
AgeSamples ==
    [kind : {"age"}, n : 0..MaxAge, unit : {"m", "h", "d"},
     prefix : {<<>>, <<"P","o","s","t","e","d"," ">>, <<"p","o","s","t","e","d">>},
     upper : BOOLEAN, pad : {<<>>, <<" ", "\t">>}, gap : {<<>>, <<" ">>}]

AgeText(d) ==
    LET text == d.prefix \o Str(d.n) \o d.gap \o <<d.unit>> \o <<" ","a","g","o">>
    IN  d.pad \o (IF d.upper THEN upper(text) ELSE text) \o d.pad

TPostedOnly == <<"P","o","s","t","e","d">>
TUnitFirst == <<"d","3">>
T3Weeks == <<"3"," ","w","e","e","k","s"," ","a","g","o">>
TDecimal == <<"1",".","5","h"," ","a","g","o">>
TNegative == <<"-","1","d"," ","a","g","o">>
T3dNotFound == <<"3","d"," ","n","o","t"," ","f","o","u","n","d">>
TBlank == <<" "," ">>

\* Inputs without a parseable age: absent, empty, sentinels, and texts that
\* do not start with a count followed by m, h or d.
MalformedTexts ==
    {None, <<>>, PostingTimeNotFound, T3dNotFound, TJustNow, T30plus, LSoon,
     TPostedOnly, TUnitFirst, T3Weeks, TDecimal, TNegative, TBlank}

\* ------------------------------------------------------- program constants
\* scrape_job_cards: fetch_page(current_url, max_retries=3)
ScrapeMaxRetries == 3
\* fetch_page / _fetch_with_selenium: max_retries: int = 3
DefaultMaxRetries == 3

\* ------------------------------------------------------------- state
VARIABLES
    fn,          \* FuncSpec: the helper being applied
    args,        \* FuncSpec: its arguments
    ret,         \* FuncSpec: <<>> before the call, <<value>> after it
    sample,      \* FuncSpec: <<>>, or <<how the argument was put together>>
    mode,        \* "func" | "cards" (/scrape_ids) | "batch" (/scrape_batch_jc) |
                 \* "single" (/scrape_jc)
    pc,          \* position of the invocation's coroutine
    response,    \* "" while running, then "success" | "error500" | "cancelled"
    pending_exc, \* the exception on its way to the endpoint ("CancelledError",
                 \* "WebDriverException", "AttributeError"), else "none"
    driver,      \* the browser self.driver refers to: "unset" | "open" | "closed"
    driverFatal, \* a fatal session error was observed on that browser
    leaked,      \* browsers opened, never quit, and no longer referenced
    attempt,     \* _fetch_with_selenium: loop variable
    max_retries, \* _fetch_with_selenium: parameter
    navs,        \* driver.get calls made by the current fetch
    sleeps,      \* backoff waits (seconds) made by the current fetch
    soup,        \* fetch_page's return value: <<>> for None, else <<page>>
    fetch_exc,   \* the current fetch ended by raising
    posted_date_limit,  \* scrape_job_cards: parameter
    current_page,       \* scrape_job_cards: local
    job_cards,          \* scrape_job_cards: cards selected on the current page
    card_i,             \* scrape_job_cards: index of the card being processed
    job_cards_data,     \* scrape_job_cards: local, the accumulated references
    scrape_ret,         \* <<>> while running, <<"return", list>> or <<"raise">>
    pagesFetched,       \* the pages fetch_page returned to the walk, in order
    fetchCalls,         \* the value of current_page at each fetch_page call of the walk
    stop,               \* why the walk ended: "" | "window" | "nonext" | "nosoup" | "except"
    job_ids,            \* /scrape_batch_jc: request.job_ids
    job_i,              \* /scrape_batch_jc: position of the for loop in job_ids
    all_jobs_data,      \* /scrape_batch_jc: local, the records collected so far
    job_details,        \* extract_job_details: local, the dict being filled
    field_i,            \* extract_job_details: the try block to run next
    raised,             \* extract_job_details: the try blocks that raised
    faults,             \* try blocks that raised during the invocation
    det_ret,            \* <<>> while running, <<"None">> or <<"dict", d>>
    chrome,             \* concurrent calls: the browsers launched, in launch order
    calls,              \* concurrent calls: each call's scraper object and position
    webhook_posts,      \* /scrape_webhook_jc: the payloads POSTed to the webhook url
    webhook_ret,        \* /scrape_webhook_jc: <<>> or <<what send_to_webhook returned>>
    session,            \* FetchSpec: the browser self.driver refers to (0: none)
    launched,           \* FetchSpec: number of browsers launched so far
    closed,             \* FetchSpec: the browsers that were quit
    prev_fail,          \* FetchSpec: <<>> or <<the failure of the previous attempt>>
    ops,                \* FetchSpec: the blocking browser operations run, and where
    inflight,           \* FetchSpec: navigations running on worker threads
    fetches             \* FetchSpec: fetch_page calls made

funcVars == <<fn, args, ret, sample>>
ctlVars == <<mode, pc, response, pending_exc>>
browserVars == <<driver, driverFatal, leaked>>
fetchVars == <<attempt, max_retries, navs, sleeps, soup, fetch_exc>>
walkVars ==
    <<posted_date_limit, current_page, job_cards, card_i, job_cards_data,
      scrape_ret, pagesFetched, fetchCalls, stop>>
batchVars ==
    <<job_ids, job_i, all_jobs_data, job_details, field_i, raised, faults, det_ret>>
concVars == <<chrome, calls>>
hookVars == <<webhook_posts, webhook_ret>>
stepVars == <<session, launched, closed, prev_fail, ops, inflight, fetches>>
vars ==
    <<funcVars, ctlVars, browserVars, fetchVars, walkVars, batchVars, concVars,
      hookVars, stepVars>>

\* ---------------------------------------------------------- idle values
FuncIdle == fn = "" /\ args = <<>> /\ ret = <<>> /\ sample = <<>>

ServiceIdle ==
    /\ response = "" /\ pending_exc = "none"
    /\ driver = "unset" /\ driverFatal = FALSE /\ leaked = 0
    /\ attempt = 0 /\ max_retries = 0 /\ navs = 0 /\ sleeps = <<>>
    /\ soup = <<>> /\ fetch_exc = FALSE

WalkIdle ==
    /\ posted_date_limit = None /\ current_page = 1 /\ job_cards = <<>>
    /\ card_i = 1 /\ job_cards_data = <<>> /\ scrape_ret = <<>>
    /\ pagesFetched = <<>> /\ fetchCalls = <<>> /\ stop = ""

DetailIdle ==
    /\ job_details = <<>> /\ field_i = 1 /\ raised = {} /\ det_ret = <<>>

BatchIdle ==
    /\ job_ids = <<>> /\ job_i = 1 /\ all_jobs_data = <<>> /\ faults = 0
    /\ DetailIdle

ConcIdle == chrome = <<>> /\ calls = <<>>

HookIdle == webhook_posts = <<>> /\ webhook_ret = <<>>

StepIdle ==
    /\ session = 0 /\ launched = 0 /\ closed = {} /\ prev_fail = <<>>
    /\ ops = {} /\ inflight = 0 /\ fetches = 0

\* The invocations that run the loop over job ids: the batch endpoint and the
\* background task of the webhook endpoint.
BatchModes == {"batch", "webhook"}

\* ------------------------------------------------------- BrowserSession
\* What one run of _setup_selenium can do: "ok"; "launch": webdriver.Chrome(...)
\* (or the driver install before it) raises, self.driver is not assigned;
\* "config": the browser is launched and assigned to self.driver, then
\* set_window_size or execute_script raises.
SetupOutcomes == {"ok", "launch", "config"}

\* self.driver after _setup_selenium ran with outcome o on a scraper whose
\* self.driver was d.
SetupDriver(o, d) == IF o = "launch" THEN d ELSE "open"

\* Browsers left unreferenced when _setup_selenium overwrites self.driver = d.
SetupOrphans(o, d) == IF o # "launch" /\ d = "open" THEN 1 ELSE 0

\* ----------------------------------------------------------- page content
\* self.base_url
BaseUrl == <<"h","t","t","p","s",":","/","/","w","w","w",".","s","e","e","k",".","c","o","m",".","a","u">>
\* '/job/'
JobPath == <<"/","j","o","b","/">>

\* s.find(sub, start): the lowest 0-based index >= start at which sub occurs
\* in s, -1 when there is none.
Find(s, sub, start) ==
    LET at == {i \in start..(Len(s) - Len(sub)) : SubSeq(s, i + 1, i + Len(sub)) = sub}
    IN  IF at = {} THEN -1 ELSE CHOOSE i \in at : \A j \in at : i <= j

\* s[a:b] for 0 <= a, 0 <= b
Slice(s, a, b) == SubSeq(s, a + 1, IF b < Len(s) THEN b ELSE Len(s))

JobIdNotFound == <<"J","o","b"," ","I","D"," ","n","o","t"," ","f","o","u","n","d">>

\* An extraction that does not look for '?': the id runs to the end of the url.
extract_job_id_to_end(url) ==
    IF url = None THEN JobIdNotFound
    ELSE Slice(url, Find(url, JobPath, 0) + 5, Len(url))

\* extract_job_id(url); url.find on None raises, the except returns the
\* "Job ID not found" text.
extract_job_id(url) ==
    IF url = None THEN JobIdNotFound
    ELSE LET start_index == Find(url, JobPath, 0) + 5
             end_index == Find(url, <<"?">>, start_index)
         IN  IF end_index = -1 THEN Slice(url, start_index, Len(url))
             ELSE Slice(url, start_index, end_index)

\* urljoin(base, href) for a base without path: an absolute url is taken as
\* it is, an absolute path is put behind the base's origin, anything else
\* becomes the only path segment.
urljoin(base, href) ==
    IF Contains(href, <<":","/","/">>) THEN href
    ELSE IF href # <<>> /\ href[1] = "/" THEN base \o href
    ELSE IF href = <<>> THEN base
    ELSE base \o <<"/">> \o href

QueryStandard == <<"?","t","y","p","e","=","s","t","a","n","d","a","r","d">>
HrefCompany == <<"/","c","o","m","p","a","n","i","e","s","/","a","c","m","e">>

\* A result-page card: its first anchor ("href": an href urljoin accepts,
\* "bad": an href urljoin raises on, "none": no anchor or no href), what the
\* href points to ("job": the listing, "other": another page of the site) and the
\* text of its date element (None: the card has none; "just now": a text
\* without a readable age).
Cards ==
    [link : {"href"}, href : {"job"}, date : {T2h, T1d, T5d, None}]
        \cup [link : {"href"}, href : {"other"}, date : {TJustNow}]
        \cup [link : {"none", "bad"}, href : {""}, date : {T5d}]

CardSeqs(n) == UNION {[1..k -> Cards] : k \in 0..n}

\* The result pages the site can serve as page p when `room` more cards fit
\* the model: the cards in document order and whether the page carries a
\* [data-automation="page-<p+1>"] link with an href (the site paginates only
\* results it has).
ResultPages(p, room) ==
    {page \in [cards : CardSeqs(room), next : BOOLEAN] :
        page.next => (p < MaxPages /\ page.cards # <<>>)}

\* Number of cards on the pages fetched so far.
RECURSIVE CardCount(_)
CardCount(pages) ==
    IF pages = <<>> THEN 0 ELSE Len(pages[1].cards) + CardCount(Tail(pages))

\* sanitize_text(text): the modelled alphabet holds no surrogate, for which
\* encode('utf-8', 'surrogateescape').decode('utf-8', 'replace') returns text.
sanitize_text(text) == text

\* extract_posting_time(job_card)
extract_posting_time(job_card) ==
    IF job_card.date # None THEN sanitize_text(strip(job_card.date))
    ELSE PostingTimeNotFound

\* The job of the card at position i of result page p: urljoin(base_url, href)
\* and extract_job_id of it, kept as tokens of the position.
Href(job_card, p, i) ==
    IF job_card.href = "job" THEN JobPath \o Str(p) \o Str(i) \o QueryStandard
    ELSE HrefCompany

JobUrl(job_card, p, i) == urljoin(BaseUrl, Href(job_card, p, i))
JobId(job_card, p, i) == extract_job_id(JobUrl(job_card, p, i))

\* The posted_date_limit values of the modelled /scrape_ids requests: absent,
\* parseable, unparseable (the empty text behaves as None at line 442).
WalkLimits == {None, L1d, LSoon}

\* ------------------------------------------------------ detail pages (jc)
\* A detail page as the selectors of extract_job_details see it. title, company,
\* description, industry, work_type: the text of the element select_one returns
\* (None: no element). loc_container: the text of the
\* [data-automation="job-detail-location"] element; loc_styled / loc_anchor:
\* the styled anchor / first anchor inside it; loc_pagewide: the page-wide
\* location anchor. spans: the texts of the spans under the details container,
\* in document order.
TitleNotFound == <<"T","i","t","l","e"," ","n","o","t"," ","f","o","u","n","d">>
LocationNotFound == <<"L","o","c","a","t","i","o","n"," ","n","o","t"," ","f","o","u","n","d">>
CompanyNotFound == <<"C","o","m","p","a","n","y"," ","n","o","t"," ","f","o","u","n","d">>
DescriptionNotFound == <<"D","e","s","c","r","i","p","t","i","o","n"," ","n","o","t"," ","f","o","u","n","d">>
IndustryNotFound == <<"I","n","d","u","s","t","r","y"," ","n","o","t"," ","f","o","u","n","d">>
WorkTypeNotFound == <<"W","o","r","k"," ","t","y","p","e"," ","n","o","t"," ","f","o","u","n","d">>
TPostedWord == <<"P","o","s","t","e","d">>
PostingUnits == << <<"a","g","o">>, <<"h">>, <<"d">>, <<"m">> >>

TSeniorDataAnalyst == <<"S","e","n","i","o","r"," ","D","a","t","a"," ","A","n","a","l","y","s","t">>
TSoftwareEngineer == <<" ","S","o","f","t","w","a","r","e"," ","E","n","g","i","n","e","e","r","\n">>
TSydney == <<"S","y","d","n","e","y"," ","N","S","W">>
TAcme == <<"A","c","m","e">>
TDescription == <<"S","Q","L"," ","a","n","d"," ","d","a","s","h","b","o","a","r","d","s">>
TPosted3d == <<"P","o","s","t","e","d"," ","3","d"," ","a","g","o">>
TIct == <<"I","C","T">>
TFullTime == <<"F","u","l","l"," ","t","i","m","e">>
TSeek == <<"S","E","E","K">>

\* The listing ids of the modelled requests and the page the site serves for
\* each: a complete page, a page without any location whose title carries
\* surrounding whitespace, and a page on which no selector matches.
JobIds == {<<"1">>, <<"2">>, <<"3">>}

SitePage(job_id) ==
    CASE job_id = <<"1">> ->
           [title |-> TSeniorDataAnalyst, loc_container |-> TSydney,
            loc_styled |-> TSydney, loc_anchor |-> TSydney, loc_pagewide |-> None,
            company |-> TAcme, description |-> TDescription,
            spans |-> <<TSeek, TPosted3d>>, industry |-> TIct, work_type |-> TFullTime]
      [] job_id = <<"2">> ->
           [title |-> TSoftwareEngineer, loc_container |-> None,
            loc_styled |-> None, loc_anchor |-> None, loc_pagewide |-> None,
            company |-> TAcme, description |-> TDescription,
            spans |-> <<TSeek>>, industry |-> None, work_type |-> TFullTime]
      [] OTHER ->
           [title |-> None, loc_container |-> None,
            loc_styled |-> None, loc_anchor |-> None, loc_pagewide |-> None,
            company |-> None, description |-> None,
            spans |-> <<>>, industry |-> None, work_type |-> None]

\* request.job_ids
IdSeqs(n) == UNION {[1..k -> JobIds] : k \in 0..n}

\* f"{self.base_url}/job/{job_id}"
JobDetailUrl(job_id) == BaseUrl \o JobPath \o job_id

\* A location lookup that takes any anchor of the container before the
\* styled one.
extract_location_any_anchor_first(page) ==
    IF page.loc_container # None
    THEN IF page.loc_anchor # None THEN sanitize_text(strip(page.loc_anchor))
         ELSE IF page.loc_styled # None THEN sanitize_text(strip(page.loc_styled))
         ELSE sanitize_text(strip(page.loc_container))
    ELSE IF page.loc_pagewide # None THEN sanitize_text(strip(page.loc_pagewide))
    ELSE LocationNotFound

\* extract_location(soup)
extract_location(page) ==
    IF page.loc_container # None
    THEN IF page.loc_styled # None THEN sanitize_text(strip(page.loc_styled))
         ELSE IF page.loc_anchor # None THEN sanitize_text(strip(page.loc_anchor))
         ELSE sanitize_text(strip(page.loc_container))
    ELSE IF page.loc_pagewide # None THEN sanitize_text(strip(page.loc_pagewide))
    ELSE LocationNotFound

\* "Posted" in text and any(unit in text for unit in ["ago", "h", "d", "m"])
IsPostingText(text) ==
    /\ Contains(text, TPostedWord)
    /\ \E u \in 1..Len(PostingUnits) : Contains(text, PostingUnits[u])

\* The for loop over posting_elements: the first matching span, stripped.
RECURSIVE posting_time_of(_)
posting_time_of(spans) ==
    IF spans = <<>> THEN PostingTimeNotFound
    ELSE IF IsPostingText(strip(spans[1])) THEN strip(spans[1])
    ELSE posting_time_of(Tail(spans))

\* categorize_job_type: the ordered (phrase, category) tests.
CategoryRules ==
    << <<<<"d","a","t","a"," ","a","n","a","l","y","s","t">>, "Data Analyst">>,
       <<<<"d","a","t","a"," ","e","n","g","i","n","e","e","r">>, "Data Engineer">>,
       <<<<"e","n","g","i","n","e","e","r">>, "Data Engineer">>,
       <<<<"b","u","s","i","n","e","s","s"," ","a","n","a","l","y","s","t">>, "Business Analyst">>,
       <<<<"a","n","a","l","y","t","i","c","s"," ","a","n","a","l","y","s","t">>, "Analytcis Engineer">>,
       <<<<"d","a","t","a"," ","s","c","i","e","n","t","i","s","t">>, "Data Scientist">>,
       <<<<"r","e","p","o","r","t"," ","d","e","v","e","l","o","p","e","r">>, "Report Developer">>,
       <<<<"s","o","l","u","t","i","o","n","s"," ","a","r","c","h","i","t","e","c","t">>, "Solutions Architect">>,
       <<<<"t","e","s","t"," ","a","n","a","l","y","s","t">>, "Test Analyst">>,
       <<<<"h","e","a","d"," ","o","f"," ","m","a","r","k","e","t","i","n","g">>, "Head of Marketing">>,
       <<<<"p","r","o","d","u","c","t"," ","m","a","r","k","e","t","e","r">>, "Product Marketer">>,
       <<<<"g","r","o","w","t","h"," ","m","a","r","k","e","t","e","r">>, "Growth Marketer">>,
       <<<<"g","r","o","w","t","h"," ","m","a","n","a","g","e","r">>, "Growth Manager">>,
       <<<<"s","o","c","i","a","l"," ","m","e","d","i","a"," ","m","a","n","a","g","e","r">>, "Social Media Manager">>,
       <<<<"c","o","n","t","e","n","t"," ","m","a","r","k","e","t","e","r">>, "Content Marketer">>,
       <<<<"d","i","g","i","t","a","l"," ","m","a","r","k","e","t","e","r">>, "Digital Marketer">>,
       <<<<"g","r","a","p","h","i","c"," ","d","e","s","i","g","n","e","r">>, "Graphic Designer">>,
       <<<<"c","o","m","m","u","n","i","t","y"," ","m","a","n","a","g","e","r">>, "Community Manager">>,
       <<<<"s","e","o"," ","s","p","e","c","i","a","l","i","s","t">>, "SEO Specialist">>,
       <<<<"m","a","r","k","e","t","i","n","g"," ","m","a","n","a","g","e","r">>, "Marketing Manager">>,
       <<<<"m","a","r","k","e","t","i","n","g"," ","c","o","o","r","d","i","n","a","t","o","r">>, "Marketing Coordinator">>,
       <<<<"m","a","r","k","e","t","i","n","g"," ","s","p","e","c","i","a","l","i","s","t">>, "Marketing Specialist">>,
       <<<<"m","a","r","k","e","t","i","n","g"," ","a","s","s","i","s","t","a","n","t">>, "Marketing Assistant">>,
       <<<<"m","a","r","k","e","t","i","n","g"," ","e","x","e","c","u","t","i","v","e">>, "Marketing Executive">>,
       <<<<"m","a","r","k","e","t","i","n","g"," ","a","n","a","l","y","s","t">>, "Marketing Analyst">> >>

RECURSIVE FirstRule(_, _)
FirstRule(job_title_lower, r) ==
    IF r > Len(CategoryRules) THEN "unknown"
    ELSE IF Contains(job_title_lower, CategoryRules[r][1]) THEN CategoryRules[r][2]
    ELSE FirstRule(job_title_lower, r + 1)

\* A categorizer that tests the title as written, without lower().
categorize_job_type_case_sensitive(job_title) == FirstRule(job_title, 1)

categorize_job_type(job_title) == FirstRule(lower(job_title), 1)

\* ------------------------------------------------- /scrape_ids: constructor
Init ==
    /\ FuncIdle
    /\ mode = "cards" /\ pc = "start"
    /\ ServiceIdle
    /\ posted_date_limit \in WalkLimits
    /\ current_page = 1 /\ job_cards = <<>> /\ card_i = 1
    /\ job_cards_data = <<>> /\ scrape_ret = <<>>
    /\ pagesFetched = <<>> /\ fetchCalls = <<>> /\ stop = ""
    /\ BatchIdle /\ ConcIdle /\ HookIdle /\ StepIdle

\* SeekJobCardsScraper(use_selenium=True): __init__ runs _setup_selenium;
\* __aenter__ returns self; scrape_job_cards starts.
\* What the caller has been answered once the invocation ends with r: the
\* webhook endpoint has answered before its background task starts.
Respond(r) == IF mode = "webhook" THEN response ELSE r

ConstructOk ==
    /\ pc = "start"
    /\ driver' = SetupDriver("ok", driver)
    /\ pc' = IF mode \in {"batch", "single", "webhook"} THEN "loop" ELSE "page"
    /\ UNCHANGED <<funcVars, mode, response, pending_exc, driverFatal, leaked,
                   fetchVars, walkVars, batchVars, concVars, hookVars, stepVars>>

\* __init__ raises out of _setup_selenium: the object is never bound, __aexit__
\* never runs, the endpoint's except turns the exception into HTTP 500.
ConstructRaises ==
    /\ pc = "start"
    /\ \E o \in SetupOutcomes \ {"ok"} :
          leaked' = leaked + (IF SetupDriver(o, driver) = "open" THEN 1 ELSE 0)
    /\ pending_exc' = "WebDriverException"
    /\ response' = Respond("error500")
    /\ pc' = "done"
    /\ UNCHANGED <<funcVars, mode, driver, driverFatal, fetchVars, walkVars, batchVars, concVars, hookVars, stepVars>>

\* --------------------------------------------------- _fetch_with_selenium
\* A backoff without the guard: a wait after every failed attempt, the last
\* one included.
BackoffAfterEveryFailure == Append(sleeps, 2 ^ attempt)

\* await asyncio.sleep(2 ** attempt) under `if attempt < max_retries - 1`
Backoff == IF attempt < max_retries - 1 THEN Append(sleeps, 2 ^ attempt) ELSE sleeps

\* What a successful navigation hands to BeautifulSoup.
Content ==
    IF mode \in BatchModes THEN {SitePage(job_ids[job_i])}
    ELSE ResultPages(current_page, MaxCards - CardCount(pagesFetched))

\* driver.get, the body wait and page_source succeed: return BeautifulSoup(html).
NavigateOk ==
    /\ pc = "fetch" /\ attempt < max_retries
    /\ driver = "open"
    /\ navs' = navs + 1
    /\ \E page \in Content : soup' = <<page>>
    /\ pc' = "fetch_ret"
    /\ UNCHANGED <<funcVars, mode, response, pending_exc, browserVars, attempt,
                   max_retries, sleeps, fetch_exc, walkVars, batchVars, concVars, hookVars, stepVars>>

\* A timeout that ends the fetch at once: None without any further attempt.
NavigateTimeoutGivesUp ==
    /\ pc = "fetch" /\ attempt < max_retries
    /\ navs' = navs + 1
    /\ sleeps' = Backoff
    /\ attempt' = attempt + 1
    /\ pc' = "fetch_ret"
    /\ UNCHANGED <<funcVars, mode, response, pending_exc, browserVars, max_retries,
                   soup, fetch_exc, walkVars, batchVars, concVars, hookVars, stepVars>>

\* except TimeoutException
NavigateTimeout ==
    /\ pc = "fetch" /\ attempt < max_retries
    /\ navs' = navs + 1
    /\ sleeps' = Backoff
    /\ attempt' = attempt + 1
    /\ UNCHANGED <<funcVars, ctlVars, browserVars, max_retries, soup, fetch_exc, walkVars, batchVars, concVars, hookVars, stepVars>>

\* except WebDriverException, message without a fatal marker
NavigateWebDriverError ==
    /\ pc = "fetch" /\ attempt < max_retries
    /\ navs' = navs + 1
    /\ sleeps' = Backoff
    /\ attempt' = attempt + 1
    /\ UNCHANGED <<funcVars, ctlVars, browserVars, max_retries, soup, fetch_exc, walkVars, batchVars, concVars, hookVars, stepVars>>

\* except WebDriverException with "invalid session id" or
\* "ERR_INTERNET_DISCONNECTED", not the last attempt: sleep, quit, set up again.
SessionErrorRepaired ==
    /\ pc = "fetch" /\ attempt < max_retries - 1
    /\ navs' = navs + 1
    /\ sleeps' = Backoff
    /\ leaked' = leaked + SetupOrphans("ok", "closed")
    /\ driver' = SetupDriver("ok", "closed")
    /\ driverFatal' = FALSE
    /\ attempt' = attempt + 1
    /\ UNCHANGED <<funcVars, ctlVars, max_retries, soup, fetch_exc, walkVars, batchVars, concVars, hookVars, stepVars>>

\* The same, but self.driver.quit() raises inside the except clause: the
\* exception leaves _fetch_with_selenium, the browser is not quit.
SessionErrorQuitRaises ==
    /\ pc = "fetch" /\ attempt < max_retries - 1
    /\ navs' = navs + 1
    /\ sleeps' = Backoff
    /\ driverFatal' = TRUE
    /\ fetch_exc' = TRUE
    /\ pc' = "fetch_ret"
    /\ UNCHANGED <<funcVars, mode, response, pending_exc, driver, leaked, attempt,
                   max_retries, soup, walkVars, batchVars, concVars, hookVars, stepVars>>

\* The same, but after the quit self._setup_selenium() raises inside the
\* except clause: the exception leaves _fetch_with_selenium.
SessionErrorSetupRaises ==
    /\ pc = "fetch" /\ attempt < max_retries - 1
    /\ navs' = navs + 1
    /\ sleeps' = Backoff
    /\ \E o \in SetupOutcomes \ {"ok"} :
          /\ leaked' = leaked + SetupOrphans(o, "closed")
          /\ driver' = SetupDriver(o, "closed")
          /\ driverFatal' = (o = "launch")
    /\ fetch_exc' = TRUE
    /\ pc' = "fetch_ret"
    /\ UNCHANGED <<funcVars, mode, response, pending_exc, attempt, max_retries,
                   soup, walkVars, batchVars, concVars, hookVars, stepVars>>

\* A fatal session error on the last attempt: no sleep, no repair.
SessionErrorLastAttempt ==
    /\ pc = "fetch" /\ attempt = max_retries - 1
    /\ navs' = navs + 1
    /\ sleeps' = Backoff
    /\ driverFatal' = TRUE
    /\ attempt' = attempt + 1
    /\ UNCHANGED <<funcVars, ctlVars, driver, leaked, max_retries, soup, fetch_exc, walkVars, batchVars, concVars, hookVars, stepVars>>

\* except Exception
NavigateOtherError ==
    /\ pc = "fetch" /\ attempt < max_retries
    /\ navs' = navs + 1
    /\ sleeps' = Backoff
    /\ attempt' = attempt + 1
    /\ UNCHANGED <<funcVars, ctlVars, browserVars, max_retries, soup, fetch_exc, walkVars, batchVars, concVars, hookVars, stepVars>>

\* The for loop is exhausted: return None.
FetchExhausted ==
    /\ pc = "fetch" /\ attempt >= max_retries
    /\ soup' = <<>>
    /\ pc' = "fetch_ret"
    /\ UNCHANGED <<funcVars, mode, response, pending_exc, browserVars, attempt,
                   max_retries, navs, sleeps, fetch_exc, walkVars, batchVars, concVars, hookVars, stepVars>>

Fetch ==
    \/ NavigateOk
    \/ NavigateTimeout
    \/ NavigateWebDriverError
    \/ SessionErrorRepaired
    \/ SessionErrorQuitRaises
    \/ SessionErrorSetupRaises
    \/ SessionErrorLastAttempt
    \/ NavigateOtherError
    \/ FetchExhausted

\* The frame of the finished fetch_page call is dropped by its caller; only the
\* returned soup lives on.
FetchFrameDropped ==
    /\ attempt' = 0 /\ max_retries' = 0 /\ navs' = 0 /\ sleeps' = <<>>
    /\ fetch_exc' = FALSE

\* The frame of scrape_job_cards is gone (the call returned and its result was
\* taken, or an exception unwound it), and with it the record of its walk.
ScrapeFrameDropped ==
    /\ current_page' = 1 /\ job_cards' = <<>> /\ card_i' = 1
    /\ job_cards_data' = <<>> /\ pagesFetched' = <<>> /\ fetchCalls' = <<>> /\ stop' = ""

\* ------------------------------------------------------- scrape_job_cards
\* soup = await self.fetch_page(current_url, max_retries=3)
ScrapeFetchPage ==
    /\ pc = "page"
    /\ attempt' = 0 /\ max_retries' = ScrapeMaxRetries
    /\ navs' = 0 /\ sleeps' = <<>> /\ soup' = <<>> /\ fetch_exc' = FALSE
    /\ fetchCalls' = Append(fetchCalls, current_page)
    /\ pc' = "fetch"
    /\ UNCHANGED <<funcVars, mode, response, pending_exc, browserVars,
                   posted_date_limit, current_page, job_cards, card_i,
                   job_cards_data, scrape_ret, pagesFetched, stop, batchVars, concVars, hookVars, stepVars>>

\* A walk that, when a page cannot be fetched, returns what it collected on
\* the pages before.
ScrapeNoSoupReturnsCollected ==
    /\ mode = "cards" /\ pc = "fetch_ret" /\ ~fetch_exc /\ soup = <<>>
    /\ scrape_ret' = <<"return", job_cards_data>>
    /\ stop' = "nosoup"
    /\ FetchFrameDropped
    /\ pc' = "aexit"
    /\ UNCHANGED <<funcVars, mode, response, pending_exc, browserVars, soup,
                   posted_date_limit, current_page, job_cards, card_i,
                   job_cards_data, pagesFetched, fetchCalls, batchVars, concVars, hookVars, stepVars>>

\* if not soup: return []
ScrapeNoSoup ==
    /\ mode = "cards" /\ pc = "fetch_ret" /\ ~fetch_exc /\ soup = <<>>
    /\ scrape_ret' = <<"return", <<>>>>
    /\ stop' = "nosoup"
    /\ FetchFrameDropped
    /\ pc' = "aexit"
    /\ UNCHANGED <<funcVars, mode, response, pending_exc, browserVars, soup,
                   posted_date_limit, current_page, job_cards, card_i,
                   job_cards_data, pagesFetched, fetchCalls, batchVars, concVars, hookVars, stepVars>>

\* The outer handler rethrowing instead of returning.
ScrapeExceptReraises ==
    /\ mode = "cards" /\ pc = "fetch_ret" /\ fetch_exc
    /\ scrape_ret' = <<"raise">>
    /\ stop' = "except"
    /\ FetchFrameDropped
    /\ pc' = "aexit"
    /\ UNCHANGED <<funcVars, mode, response, pending_exc, browserVars, soup,
                   posted_date_limit, current_page, job_cards, card_i,
                   job_cards_data, pagesFetched, fetchCalls, batchVars, concVars, hookVars, stepVars>>

\* except Exception as e: return []   (the exception came out of fetch_page)
ScrapeExcept ==
    /\ mode = "cards" /\ pc = "fetch_ret" /\ fetch_exc
    /\ scrape_ret' = <<"return", <<>>>>
    /\ stop' = "except"
    /\ FetchFrameDropped
    /\ pc' = "aexit"
    /\ UNCHANGED <<funcVars, mode, response, pending_exc, browserVars, soup,
                   posted_date_limit, current_page, job_cards, card_i,
                   job_cards_data, pagesFetched, fetchCalls, batchVars, concVars, hookVars, stepVars>>

\* job_cards = soup.select(...)
ScrapePageLoaded ==
    /\ mode = "cards" /\ pc = "fetch_ret" /\ ~fetch_exc /\ soup # <<>>
    /\ job_cards' = soup[1].cards
    /\ card_i' = 1
    /\ pagesFetched' = Append(pagesFetched, soup[1])
    /\ FetchFrameDropped
    /\ pc' = "cards"
    /\ UNCHANGED <<funcVars, mode, response, pending_exc, browserVars, soup,
                   posted_date_limit, current_page, job_cards_data, scrape_ret,
                   fetchCalls, stop, batchVars, concVars, hookVars, stepVars>>

\* A card loop that ends the walk at a card without a usable link, the way
\* it ends at a card outside the window.
CardNoLinkReturns ==
    /\ pc = "cards" /\ card_i <= Len(job_cards)
    /\ job_cards[card_i].link = "none"
    /\ scrape_ret' = <<"return", job_cards_data>>
    /\ stop' = "window"
    /\ pc' = "aexit"
    /\ UNCHANGED <<funcVars, mode, response, pending_exc, browserVars, fetchVars,
                   posted_date_limit, current_page, job_cards, card_i,
                   job_cards_data, pagesFetched, fetchCalls, batchVars, concVars, hookVars, stepVars>>

\* if not link_element or not link_element.has_attr('href'): continue
CardNoLink ==
    /\ pc = "cards" /\ card_i <= Len(job_cards)
    /\ job_cards[card_i].link = "none"
    /\ card_i' = card_i + 1
    /\ UNCHANGED <<funcVars, ctlVars, browserVars, fetchVars, posted_date_limit,
                   current_page, job_cards, job_cards_data, scrape_ret,
                   pagesFetched, fetchCalls, stop, batchVars, concVars, hookVars, stepVars>>

\* urljoin raises on the href: except Exception ... continue
CardRaises ==
    /\ pc = "cards" /\ card_i <= Len(job_cards)
    /\ job_cards[card_i].link = "bad"
    /\ card_i' = card_i + 1
    /\ UNCHANGED <<funcVars, ctlVars, browserVars, fetchVars, posted_date_limit,
                   current_page, job_cards, job_cards_data, scrape_ret,
                   pagesFetched, fetchCalls, stop, batchVars, concVars, hookVars, stepVars>>

\* The test of scrape_job_cards line 442 on a linked card.
OutsideWindow(job_card) ==
    /\ Truthy(posted_date_limit)
    /\ ~_is_within_time_limit(extract_posting_time(job_card), posted_date_limit)

\* The handling the log line ("Job outside time limit, skipping") describes:
\* skip the card and go on, instead of ending the walk.
CardOutsideWindowSkips ==
    /\ pc = "cards" /\ card_i <= Len(job_cards)
    /\ job_cards[card_i].link = "href"
    /\ OutsideWindow(job_cards[card_i])
    /\ card_i' = card_i + 1
    /\ UNCHANGED <<funcVars, ctlVars, browserVars, fetchVars, posted_date_limit,
                   current_page, job_cards, job_cards_data, scrape_ret,
                   pagesFetched, fetchCalls, stop, batchVars, concVars, hookVars, stepVars>>

\* if posted_date_limit and not self._is_within_time_limit(...): return job_cards_data
CardOutsideWindow ==
    /\ pc = "cards" /\ card_i <= Len(job_cards)
    /\ job_cards[card_i].link = "href"
    /\ OutsideWindow(job_cards[card_i])
    /\ scrape_ret' = <<"return", job_cards_data>>
    /\ stop' = "window"
    /\ pc' = "aexit"
    /\ UNCHANGED <<funcVars, mode, response, pending_exc, browserVars, fetchVars,
                   posted_date_limit, current_page, job_cards, card_i,
                   job_cards_data, pagesFetched, fetchCalls, batchVars, concVars, hookVars, stepVars>>

\* job_cards_data.append({'job_id': ..., 'posted_date': ..., 'url': ...})
CardAppend ==
    /\ pc = "cards" /\ card_i <= Len(job_cards)
    /\ job_cards[card_i].link = "href"
    /\ ~OutsideWindow(job_cards[card_i])
    /\ job_cards_data' =
          Append(job_cards_data,
                 [job_id |-> JobId(job_cards[card_i], current_page, card_i),
                  posted_date |-> extract_posting_time(job_cards[card_i]),
                  url |-> JobUrl(job_cards[card_i], current_page, card_i)])
    /\ card_i' = card_i + 1
    /\ UNCHANGED <<funcVars, ctlVars, browserVars, fetchVars, posted_date_limit,
                   current_page, job_cards, scrape_ret, pagesFetched, fetchCalls, stop, batchVars, concVars, hookVars, stepVars>>

\* The for loop over the cards ends: await asyncio.sleep(random.uniform(3, 7))
CardsDone ==
    /\ pc = "cards" /\ card_i > Len(job_cards)
    /\ pc' = "next_page"
    /\ UNCHANGED <<funcVars, mode, response, pending_exc, browserVars, fetchVars, walkVars, batchVars, concVars, hookVars, stepVars>>

\* get_next_page_url(soup, current_page)
\* A lookup that never finds the link of the next page.
get_next_page_url_none(page, page_no) == <<>>

get_next_page_url(page, page_no) == IF page.next THEN <<page_no + 1>> ELSE <<>>

\* A walk that follows the next link without advancing its page counter.
NextPageSameCounter ==
    /\ pc = "next_page"
    /\ get_next_page_url(soup[1], current_page) # <<>>
    /\ current_page' = current_page
    /\ pc' = "page"
    /\ UNCHANGED <<funcVars, mode, response, pending_exc, browserVars, fetchVars,
                   posted_date_limit, job_cards, card_i, job_cards_data,
                   scrape_ret, pagesFetched, fetchCalls, stop, batchVars, concVars, hookVars, stepVars>>

\* current_url = next_page_url; current_page += 1
NextPage ==
    /\ pc = "next_page"
    /\ get_next_page_url(soup[1], current_page) # <<>>
    /\ current_page' = current_page + 1
    /\ pc' = "page"
    /\ UNCHANGED <<funcVars, mode, response, pending_exc, browserVars, fetchVars,
                   posted_date_limit, job_cards, card_i, job_cards_data,
                   scrape_ret, pagesFetched, fetchCalls, stop, batchVars, concVars, hookVars, stepVars>>

\* if not next_page_url: break ... return job_cards_data
NoNextPage ==
    /\ pc = "next_page"
    /\ get_next_page_url(soup[1], current_page) = <<>>
    /\ scrape_ret' = <<"return", job_cards_data>>
    /\ stop' = "nonext"
    /\ pc' = "aexit"
    /\ UNCHANGED <<funcVars, mode, response, pending_exc, browserVars, fetchVars,
                   posted_date_limit, current_page, job_cards, card_i,
                   job_cards_data, pagesFetched, fetchCalls, batchVars, concVars, hookVars, stepVars>>

Scrape ==
    \/ ScrapeFetchPage
    \/ ScrapeNoSoup
    \/ ScrapeExcept
    \/ ScrapePageLoaded
    \/ CardNoLink
    \/ CardRaises
    \/ CardOutsideWindow
    \/ CardAppend
    \/ CardsDone
    \/ NextPage
    \/ NoNextPage

\* --------------------------------------------------- extract_job_details
\* The try blocks of extract_job_details in source order, by the key each sets.
FieldOrder ==
    <<"job_title", "job_location", "company", "job_description",
      "posting_time", "job_type", "job_industry", "job_work_type">>

\* The value the except clause of the try block for `field` assigns.
Sentinel(field) ==
    CASE field = "job_title" -> TitleNotFound
      [] field = "job_location" -> LocationNotFound
      [] field = "company" -> CompanyNotFound
      [] field = "job_description" -> DescriptionNotFound
      [] field = "posting_time" -> PostingTimeNotFound
      [] field = "job_type" -> "unknown"
      [] field = "job_industry" -> IndustryNotFound
      [] field = "job_work_type" -> WorkTypeNotFound

\* sanitize_text(element.text.strip() if element else "<field> not found")
ElementText(element, not_found) ==
    sanitize_text(IF element # None THEN strip(element) ELSE not_found)

\* The value the body of the try block for `field` assigns when it does not
\* raise; details is job_details as filled so far.
TryBody(field, page, details) ==
    CASE field = "job_title" -> ElementText(page.title, TitleNotFound)
      [] field = "job_location" -> extract_location(page)
      [] field = "company" -> ElementText(page.company, CompanyNotFound)
      [] field = "job_description" -> ElementText(page.description, DescriptionNotFound)
      [] field = "posting_time" -> posting_time_of(page.spans)
      [] field = "job_type" -> categorize_job_type(details["job_title"])
      [] field = "job_industry" -> ElementText(page.industry, IndustryNotFound)
      [] field = "job_work_type" -> ElementText(page.work_type, WorkTypeNotFound)

\* str(e) of the exception that left fetch_page
ErrorText == "Message: invalid session id"

\* The frame of a finished extract_job_details call is dropped by the loop.
DetailFrameDropped ==
    /\ job_details' = <<>> /\ field_i' = 1 /\ raised' = {} /\ det_ret' = <<>>

\* job_data = await scraper.extract_job_details(str(job_id)), up to the await
\* of fetch_page(job_url) with the default max_retries.
ExtractJobDetails ==
    /\ mode \in BatchModes /\ pc = "loop" /\ job_i <= Len(job_ids)
    /\ job_details' = [url |-> JobDetailUrl(job_ids[job_i]), job_id |-> job_ids[job_i]]
    /\ field_i' = 1 /\ raised' = {} /\ det_ret' = <<>>
    /\ attempt' = 0 /\ max_retries' = DefaultMaxRetries
    /\ navs' = 0 /\ sleeps' = <<>> /\ soup' = <<>> /\ fetch_exc' = FALSE
    /\ pc' = "fetch"
    /\ UNCHANGED <<funcVars, mode, response, pending_exc, browserVars, walkVars,
                   job_ids, job_i, all_jobs_data, faults, concVars, hookVars, stepVars>>

\* if not soup: return None -- returned with an error dict instead
DetailNoSoupErrorDict ==
    /\ mode \in BatchModes /\ pc = "fetch_ret" /\ ~fetch_exc /\ soup = <<>>
    /\ det_ret' = <<"dict", [url |-> job_details.url, job_id |-> job_details.job_id,
                             error |-> ErrorText]>>
    /\ pc' = "detail_ret"
    /\ UNCHANGED <<funcVars, mode, response, pending_exc, browserVars, fetchVars,
                   walkVars, job_ids, job_i, all_jobs_data, job_details, field_i,
                   raised, faults, concVars, hookVars, stepVars>>

\* if not soup: return None
DetailNoSoup ==
    /\ mode \in BatchModes /\ pc = "fetch_ret" /\ ~fetch_exc /\ soup = <<>>
    /\ det_ret' = <<"None">>
    /\ pc' = "detail_ret"
    /\ UNCHANGED <<funcVars, mode, response, pending_exc, browserVars, fetchVars,
                   walkVars, job_ids, job_i, all_jobs_data, job_details, field_i,
                   raised, faults, concVars, hookVars, stepVars>>

\* fetch_page raised: the outer except returns {'url', 'job_id', 'error'}.
DetailFetchRaised ==
    /\ mode \in BatchModes /\ pc = "fetch_ret" /\ fetch_exc
    /\ det_ret' = <<"dict", [url |-> JobDetailUrl(job_ids[job_i]),
                             job_id |-> job_ids[job_i], error |-> ErrorText]>>
    /\ pc' = "detail_ret"
    /\ UNCHANGED <<funcVars, mode, response, pending_exc, browserVars, fetchVars,
                   walkVars, job_ids, job_i, all_jobs_data, job_details, field_i,
                   raised, faults, concVars, hookVars, stepVars>>

\* fetch_page returned a soup: the field extraction starts.
DetailPageLoaded ==
    /\ mode \in BatchModes /\ pc = "fetch_ret" /\ ~fetch_exc /\ soup # <<>>
    /\ FetchFrameDropped
    /\ pc' = "fields"
    /\ UNCHANGED <<funcVars, mode, response, pending_exc, browserVars, soup,
                   walkVars, batchVars, concVars, hookVars, stepVars>>

\* A try block that raises and ends the extraction: its sentinel is assigned,
\* the blocks after it do not run.
ExtractFieldRaisesAborts ==
    /\ mode \in BatchModes /\ pc = "fields" /\ field_i <= Len(FieldOrder)
    /\ faults < MaxFaults
    /\ job_details' = (FieldOrder[field_i] :> Sentinel(FieldOrder[field_i])) @@ job_details
    /\ raised' = raised \cup {FieldOrder[field_i]}
    /\ faults' = faults + 1
    /\ field_i' = Len(FieldOrder) + 1
    /\ UNCHANGED <<funcVars, ctlVars, browserVars, fetchVars, walkVars,
                   job_ids, job_i, all_jobs_data, det_ret, concVars, hookVars, stepVars>>

\* The body of the next try block raises: its except clause assigns the
\* sentinel.
ExtractFieldRaises ==
    /\ mode \in BatchModes /\ pc = "fields" /\ field_i <= Len(FieldOrder)
    /\ faults < MaxFaults
    /\ job_details' = (FieldOrder[field_i] :> Sentinel(FieldOrder[field_i])) @@ job_details
    /\ raised' = raised \cup {FieldOrder[field_i]}
    /\ faults' = faults + 1
    /\ field_i' = field_i + 1
    /\ UNCHANGED <<funcVars, ctlVars, browserVars, fetchVars, walkVars,
                   job_ids, job_i, all_jobs_data, det_ret, concVars, hookVars, stepVars>>

\* The body of the next try block runs to its end.
ExtractField ==
    /\ mode \in BatchModes /\ pc = "fields" /\ field_i <= Len(FieldOrder)
    /\ job_details' =
          (FieldOrder[field_i] :> TryBody(FieldOrder[field_i], soup[1], job_details))
              @@ job_details
    /\ field_i' = field_i + 1
    /\ UNCHANGED <<funcVars, ctlVars, browserVars, fetchVars, walkVars,
                   job_ids, job_i, all_jobs_data, raised, faults, det_ret, concVars, hookVars, stepVars>>

\* return job_details
DetailReturn ==
    /\ mode \in BatchModes /\ pc = "fields" /\ field_i > Len(FieldOrder)
    /\ det_ret' = <<"dict", job_details>>
    /\ pc' = "detail_ret"
    /\ UNCHANGED <<funcVars, mode, response, pending_exc, browserVars, fetchVars,
                   walkVars, job_ids, job_i, all_jobs_data, job_details, field_i,
                   raised, faults, concVars, hookVars, stepVars>>

Detail ==
    \/ ExtractJobDetails
    \/ DetailNoSoup
    \/ DetailFetchRaised
    \/ DetailPageLoaded
    \/ ExtractFieldRaises
    \/ ExtractField
    \/ DetailReturn

\* ------------------------------------------------------ /scrape_batch_jc
\* The copy loop of the endpoint: every str value through sanitize_text.
Serializable(job_data) == [key \in DOMAIN job_data |-> sanitize_text(job_data[key])]

\* A request to /scrape_batch_jc (job_ids) or to /scrape_jc, whose request
\* model has the single field job_id (kept as a one-element job_ids).
BatchInit ==
    /\ FuncIdle
    /\ mode \in {"batch", "single"} /\ pc = "start"
    /\ ServiceIdle /\ WalkIdle
    /\ job_ids \in (IF mode = "batch" THEN IdSeqs(MaxBatch) ELSE {<<id>> : id \in JobIds})
    /\ job_i = 1 /\ all_jobs_data = <<>> /\ faults = 0
    /\ DetailIdle /\ ConcIdle /\ HookIdle /\ StepIdle

\* if job_data: ... all_jobs_data.append(...) -- inserted at the front instead
BatchAppendFront ==
    /\ mode \in BatchModes /\ pc = "detail_ret" /\ det_ret[1] = "dict"
    /\ all_jobs_data' = <<Serializable(det_ret[2])>> \o all_jobs_data
    /\ job_i' = job_i + 1
    /\ DetailFrameDropped /\ FetchFrameDropped /\ soup' = <<>>
    /\ pc' = "loop"
    /\ UNCHANGED <<funcVars, mode, response, pending_exc, browserVars, walkVars,
                   job_ids, faults, concVars, hookVars, stepVars>>

\* if job_data: ... all_jobs_data.append(serializable_job); next job_id
BatchAppend ==
    /\ mode \in BatchModes /\ pc = "detail_ret" /\ det_ret[1] = "dict"
    /\ all_jobs_data' = Append(all_jobs_data, Serializable(det_ret[2]))
    /\ job_i' = job_i + 1
    /\ DetailFrameDropped /\ FetchFrameDropped /\ soup' = <<>>
    /\ pc' = "loop"
    /\ UNCHANGED <<funcVars, mode, response, pending_exc, browserVars, walkVars,
                   job_ids, faults, concVars, hookVars, stepVars>>

\* job_data is None: nothing is appended; next job_id
BatchSkipNone ==
    /\ mode \in BatchModes /\ pc = "detail_ret" /\ det_ret = <<"None">>
    /\ job_i' = job_i + 1
    /\ DetailFrameDropped /\ FetchFrameDropped /\ soup' = <<>>
    /\ pc' = "loop"
    /\ UNCHANGED <<funcVars, mode, response, pending_exc, browserVars, walkVars,
                   job_ids, all_jobs_data, faults, concVars, hookVars, stepVars>>

\* The for loop is exhausted: the `async with` block ends.
BatchLoopDone ==
    /\ mode = "batch" /\ pc = "loop" /\ job_i > Len(job_ids)
    /\ pc' = "aexit"
    /\ UNCHANGED <<funcVars, mode, response, pending_exc, browserVars, fetchVars,
                   walkVars, batchVars, concVars, hookVars, stepVars>>

\* /scrape_jc: `for job_id in request.job_ids` on a JobSearchRequest, which
\* has no field job_ids: AttributeError inside the `async with` block.
SingleLoopRaises ==
    /\ mode = "single" /\ pc = "loop"
    /\ pending_exc' = "AttributeError"
    /\ pc' = "aexit"
    /\ UNCHANGED <<funcVars, mode, response, browserVars, fetchVars, walkVars, batchVars, concVars, hookVars, stepVars>>

Batch ==
    \/ BatchAppend
    \/ BatchSkipNone
    \/ BatchLoopDone

\* ------------------------------------------------------ endpoint, __aexit__
\* The caller abandons the request while the coroutine is suspended in an
\* await (a navigation, a backoff sleep, the inter-page delay): CancelledError
\* is no Exception, so no handler of the scraper catches it; it unwinds the
\* frames of fetch_page and scrape_job_cards and reaches the `async with`.
Cancel ==
    /\ pc \in {"fetch", "next_page"}
    /\ pending_exc' = "CancelledError"
    /\ FetchFrameDropped /\ soup' = <<>>
    /\ ScrapeFrameDropped
    /\ scrape_ret' = <<>>
    /\ pc' = "aexit"
    /\ DetailFrameDropped
    /\ UNCHANGED <<funcVars, mode, response, browserVars, posted_date_limit,
                   job_ids, job_i, all_jobs_data, faults, concVars, hookVars, stepVars>>

\* __aexit__: self.driver.quit() returns; the `async with` block is left.
AExitOk ==
    /\ pc = "aexit"
    /\ driver' = "closed"
    /\ response' = Respond(IF pending_exc = "CancelledError" THEN "cancelled"
                           ELSE IF pending_exc # "none" THEN "error500"
                           ELSE IF mode = "cards" /\ scrape_ret = <<"raise">> THEN "error500"
                           ELSE "success")
    /\ ScrapeFrameDropped
    /\ pc' = "done"
    /\ UNCHANGED <<funcVars, mode, pending_exc, driverFatal, leaked, fetchVars,
                   posted_date_limit, scrape_ret, batchVars, concVars, hookVars, stepVars>>

\* __aexit__: self.driver.quit() raises; the endpoint answers HTTP 500.
AExitRaises ==
    /\ pc = "aexit"
    /\ pending_exc' = "WebDriverException"
    /\ response' = Respond("error500")
    /\ ScrapeFrameDropped
    /\ pc' = "done"
    /\ UNCHANGED <<funcVars, mode, browserVars, fetchVars,
                   posted_date_limit, scrape_ret, batchVars, concVars, hookVars, stepVars>>

Next ==
    \/ ConstructOk
    \/ ConstructRaises
    \/ Fetch
    \/ Scrape
    \/ Cancel
    \/ AExitOk
    \/ AExitRaises

Spec == Init /\ [][Next]_vars

\* The /scrape_ids invocation when every await returns: the event loop keeps
\* resuming the coroutine as long as it has a step to take.
LiveSpec == Init /\ [][Next]_vars /\ WF_vars(Next)

BatchNext ==
    \/ ConstructOk
    \/ ConstructRaises
    \/ Fetch
    \/ Detail
    \/ Batch
    \/ SingleLoopRaises
    \/ Cancel
    \/ AExitOk
    \/ AExitRaises

BatchSpec == BatchInit /\ [][BatchNext]_vars

\* ------------------------------------- WebhookSpec: /scrape_webhook_jc
\* scrape_and_send_to_webhook queues background_scrape_and_send and answers
\* {"status": "accepted", ...}; the background task then runs the same loop
\* over job_ids as the batch endpoint and POSTs the payload.
WebhookInit ==
    /\ FuncIdle
    /\ mode = "webhook" /\ pc = "start"
    /\ response = "accepted" /\ pending_exc = "none"
    /\ driver = "unset" /\ driverFatal = FALSE /\ leaked = 0
    /\ attempt = 0 /\ max_retries = 0 /\ navs = 0 /\ sleeps = <<>>
    /\ soup = <<>> /\ fetch_exc = FALSE
    /\ WalkIdle
    /\ job_ids \in IdSeqs(MaxBatch)
    /\ job_i = 1 /\ all_jobs_data = <<>> /\ faults = 0
    /\ DetailIdle /\ ConcIdle /\ HookIdle /\ StepIdle

\* webhook_payload = {"status": "success", "job_count": ..., "data": ...}
\* (the timestamp is left out)
webhook_payload ==
    [status |-> "success", job_count |-> Len(all_jobs_data), data |-> all_jobs_data]

\* The for loop is exhausted: await send_to_webhook(webhook_url, payload),
\* still inside the `async with` block.
WebhookLoopDone ==
    /\ mode = "webhook" /\ pc = "loop" /\ job_i > Len(job_ids)
    /\ pc' = "send"
    /\ UNCHANGED <<funcVars, mode, response, pending_exc, browserVars, fetchVars,
                   walkVars, batchVars, concVars, hookVars, stepVars>>

\* send_to_webhook: session.post answers; {"status": "sent", ...} is returned
\* and dropped by the `await` statement of background_scrape_and_send.
WebhookSent ==
    /\ mode = "webhook" /\ pc = "send"
    /\ webhook_posts' = Append(webhook_posts, webhook_payload)
    /\ webhook_ret' = <<"sent">>
    /\ pc' = "aexit"
    /\ UNCHANGED <<funcVars, mode, response, pending_exc, browserVars, fetchVars,
                   walkVars, batchVars, concVars, stepVars>>

\* send_to_webhook: the POST raises; the except returns {"status": "error",
\* "message": str(e)}, which the `await` statement drops as well.
WebhookFailed ==
    /\ mode = "webhook" /\ pc = "send"
    /\ webhook_posts' = Append(webhook_posts, webhook_payload)
    /\ webhook_ret' = <<"error">>
    /\ pc' = "aexit"
    /\ UNCHANGED <<funcVars, mode, response, pending_exc, browserVars, fetchVars,
                   walkVars, batchVars, concVars, stepVars>>

WebhookNext ==
    \/ ConstructOk
    \/ ConstructRaises
    \/ Fetch
    \/ Detail
    \/ BatchAppend
    \/ BatchSkipNone
    \/ WebhookLoopDone
    \/ WebhookSent
    \/ WebhookFailed
    \/ AExitOk
    \/ AExitRaises

WebhookSpec == WebhookInit /\ [][WebhookNext]_vars

\* ------------------------------------ FetchSpec: a fetch, step by step
\* One scraper object from its construction to __aexit__, making fetch_page
\* calls; _fetch_with_selenium is followed statement by statement: which
\* browser each attempt drives, which thread runs each blocking browser
\* operation, and when a navigation handed to the executor is running.
\* attempt, max_retries and sleeps are the locals of _fetch_with_selenium.
FetchInit ==
    /\ FuncIdle
    /\ mode = "steps" /\ pc = "start"
    /\ ServiceIdle /\ WalkIdle /\ BatchIdle /\ ConcIdle /\ HookIdle /\ StepIdle

\* The exceptions an attempt can end with: TimeoutException, a
\* WebDriverException without / with "invalid session id" or
\* "ERR_INTERNET_DISCONNECTED" in its message, any other Exception.
Failures == {"timeout", "webdriver", "session", "other"}

\* A blocking browser operation and the thread that runs it.
Op(op, on) == [op |-> op, on |-> on]

\* SeekJobCardsScraper(use_selenium=True) in the endpoint's coroutine:
\* __init__ calls self._setup_selenium(), i.e. webdriver.Chrome(...), directly.
StepConstruct ==
    /\ pc = "start"
    /\ launched' = launched + 1 /\ session' = launched + 1
    /\ ops' = ops \cup {Op("launch", "loop")}
    /\ pc' = "call"
    /\ UNCHANGED <<funcVars, mode, response, pending_exc, browserVars, fetchVars,
                   walkVars, batchVars, concVars, hookVars, closed, prev_fail,
                   inflight, fetches>>

\* await self.fetch_page(url, max_retries): the next page of the walk, the
\* next item of the batch.
StepFetchCall ==
    /\ pc = "call" /\ fetches < MaxFetches
    /\ fetches' = fetches + 1
    /\ \E r \in 1..MaxAttempts : max_retries' = r
    /\ attempt' = 0 /\ sleeps' = <<>> /\ prev_fail' = <<>>
    /\ pc' = "get"
    /\ UNCHANGED <<funcVars, mode, response, pending_exc, browserVars, navs, soup,
                   fetch_exc, walkVars, batchVars, concVars, hookVars, session,
                   launched, closed, ops, inflight>>

\* A navigation handed to the executor whose result is not awaited: the loop
\* goes on to the next attempt while it runs.
StepGetNotAwaited ==
    /\ pc = "get" /\ attempt < max_retries
    /\ inflight' = inflight + 1
    /\ ops' = ops \cup {Op("get", "executor")}
    /\ attempt' = attempt + 1
    /\ UNCHANGED <<funcVars, ctlVars, browserVars, max_retries, navs, sleeps, soup,
                   fetch_exc, walkVars, batchVars, concVars, hookVars, session,
                   launched, closed, prev_fail, fetches>>

\* for attempt in range(max_retries): await loop.run_in_executor(None,
\* lambda: self.driver.get(url)) -- the call is handed to a worker thread and
\* the coroutine is suspended until it ends.
StepGet ==
    /\ pc = "get" /\ attempt < max_retries
    /\ inflight' = inflight + 1
    /\ ops' = ops \cup {Op("get", "executor")}
    /\ pc' = "get_wait"
    /\ UNCHANGED <<funcVars, mode, response, pending_exc, browserVars, fetchVars,
                   walkVars, batchVars, concVars, hookVars, session, launched,
                   closed, prev_fail, fetches>>

\* driver.get returned in the worker thread: the coroutine resumes.
StepGetReturns ==
    /\ pc = "get_wait"
    /\ inflight' = inflight - 1
    /\ pc' = "read"
    /\ UNCHANGED <<funcVars, mode, response, pending_exc, browserVars, fetchVars,
                   walkVars, batchVars, concVars, hookVars, session, launched,
                   closed, prev_fail, ops, fetches>>

\* driver.get raised in the worker thread: the await raises in the coroutine.
StepGetRaises ==
    /\ pc = "get_wait"
    /\ inflight' = inflight - 1
    /\ \E e \in Failures : prev_fail' = <<[error |-> e, session |-> session]>>
    /\ pc' = "except"
    /\ UNCHANGED <<funcVars, mode, response, pending_exc, browserVars, fetchVars,
                   walkVars, batchVars, concVars, hookVars, session, launched,
                   closed, ops, fetches>>

\* The WebDriverWait for the body and the read of page_source, each awaited
\* on the executor, succeed: return BeautifulSoup(html, 'html.parser').
StepReadReturns ==
    /\ pc = "read"
    /\ ops' = ops \cup {Op("wait_body", "executor"), Op("page_source", "executor")}
    /\ prev_fail' = <<>>
    /\ pc' = "call"
    /\ UNCHANGED <<funcVars, mode, response, pending_exc, browserVars, fetchVars,
                   walkVars, batchVars, concVars, hookVars, session, launched,
                   closed, inflight, fetches>>

\* The WebDriverWait for the body raises (no body within self.timeout, or the
\* session was lost).
StepReadRaises ==
    /\ pc = "read"
    /\ ops' = ops \cup {Op("wait_body", "executor")}
    /\ \E e \in Failures : prev_fail' = <<[error |-> e, session |-> session]>>
    /\ pc' = "except"
    /\ UNCHANGED <<funcVars, mode, response, pending_exc, browserVars, fetchVars,
                   walkVars, batchVars, concVars, hookVars, session, launched,
                   closed, inflight, fetches>>

\* The wait of an except clause: if attempt < max_retries - 1:
\* await asyncio.sleep(2 ** attempt)
StepBackoff == IF attempt < max_retries - 1 THEN Append(sleeps, 2 ^ attempt) ELSE sleeps

\* The failure of an attempt is followed by the quit and the new launch.
Repairs == prev_fail[1].error = "session" /\ attempt < max_retries - 1

\* An except clause that does not repair: TimeoutException, Exception, a
\* WebDriverException without fatal marker, or the last attempt.
StepExcept ==
    /\ pc = "except" /\ ~Repairs
    /\ sleeps' = StepBackoff
    /\ attempt' = attempt + 1
    /\ pc' = "get"
    /\ UNCHANGED <<funcVars, mode, response, pending_exc, browserVars, max_retries,
                   navs, soup, fetch_exc, walkVars, batchVars, concVars, hookVars,
                   stepVars>>

\* An except clause of WebDriverException that repairs after every
\* WebDriverException that is retried, fatal marker or not.
StepExceptRepairEager ==
    /\ pc = "except"
    /\ prev_fail[1].error \in {"session", "webdriver"} /\ attempt < max_retries - 1
    /\ sleeps' = StepBackoff
    /\ closed' = closed \cup {session}
    /\ launched' = launched + 1 /\ session' = launched + 1
    /\ ops' = ops \cup {Op("quit", "loop"), Op("launch", "loop")}
    /\ attempt' = attempt + 1
    /\ pc' = "get"
    /\ UNCHANGED <<funcVars, mode, response, pending_exc, browserVars, max_retries,
                   navs, soup, fetch_exc, walkVars, batchVars, concVars, hookVars,
                   prev_fail, inflight, fetches>>

\* except WebDriverException with a fatal marker, not the last attempt: after
\* the sleep, self.driver.quit() and self._setup_selenium(), both called
\* directly in the coroutine.
StepExceptRepair ==
    /\ pc = "except" /\ Repairs
    /\ sleeps' = StepBackoff
    /\ closed' = closed \cup {session}
    /\ launched' = launched + 1 /\ session' = launched + 1
    /\ ops' = ops \cup {Op("quit", "loop"), Op("launch", "loop")}
    /\ attempt' = attempt + 1
    /\ pc' = "get"
    /\ UNCHANGED <<funcVars, mode, response, pending_exc, browserVars, max_retries,
                   navs, soup, fetch_exc, walkVars, batchVars, concVars, hookVars,
                   prev_fail, inflight, fetches>>

\* A repair that sets up the new browser first and quits the old one after
\* it, when one of the two raises.
StepExceptRepairRaisesLaunchFirst ==
    /\ pc = "except" /\ Repairs
    /\ sleeps' = StepBackoff
    /\ \E o \in {"quit", "launch", "config"} :
          /\ closed' = closed
          /\ launched' = IF o = "launch" THEN launched ELSE launched + 1
          /\ session' = IF o = "launch" THEN session ELSE launched + 1
          /\ ops' = ops \cup (IF o = "quit" THEN {Op("launch", "loop"), Op("quit", "loop")}
                               ELSE {Op("launch", "loop")})
    /\ prev_fail' = <<>>
    /\ pc' = "call"
    /\ UNCHANGED <<funcVars, mode, response, pending_exc, browserVars, attempt,
                   max_retries, navs, soup, fetch_exc, walkVars, batchVars,
                   concVars, hookVars, inflight, fetches>>

\* The same, but self.driver.quit() or self._setup_selenium() raises: the
\* exception leaves _fetch_with_selenium and is caught by the caller of
\* fetch_page; self.driver stays the old browser unless the launch was done.
StepExceptRepairRaises ==
    /\ pc = "except" /\ Repairs
    /\ sleeps' = StepBackoff
    /\ \E o \in {"quit", "launch", "config"} :
          /\ closed' = IF o = "quit" THEN closed ELSE closed \cup {session}
          /\ launched' = IF o = "config" THEN launched + 1 ELSE launched
          /\ session' = IF o = "config" THEN launched + 1 ELSE session
          /\ ops' = ops \cup (IF o = "quit" THEN {Op("quit", "loop")}
                               ELSE {Op("quit", "loop"), Op("launch", "loop")})
    /\ prev_fail' = <<>>
    /\ pc' = "call"
    /\ UNCHANGED <<funcVars, mode, response, pending_exc, browserVars, attempt,
                   max_retries, navs, soup, fetch_exc, walkVars, batchVars,
                   concVars, hookVars, inflight, fetches>>

\* The for loop is exhausted: return None.
StepExhausted ==
    /\ pc = "get" /\ attempt >= max_retries
    /\ prev_fail' = <<>>
    /\ pc' = "call"
    /\ UNCHANGED <<funcVars, mode, response, pending_exc, browserVars, fetchVars,
                   walkVars, batchVars, concVars, hookVars, session, launched,
                   closed, ops, inflight, fetches>>

\* The task is cancelled while it awaits the executor: the worker thread goes
\* on with driver.get, CancelledError unwinds to the `async with`, whose
\* __aexit__ calls self.driver.quit().
StepCancel ==
    /\ pc = "get_wait"
    /\ closed' = closed \cup {session}
    /\ ops' = ops \cup {Op("quit", "loop")}
    /\ pc' = "done"
    /\ UNCHANGED <<funcVars, mode, response, pending_exc, browserVars, fetchVars,
                   walkVars, batchVars, concVars, hookVars, session, launched,
                   prev_fail, inflight, fetches>>

\* The driver.get of a cancelled task ends in its worker thread.
StepWorkerEnds ==
    /\ pc = "done" /\ inflight > 0
    /\ inflight' = inflight - 1
    /\ UNCHANGED <<funcVars, ctlVars, browserVars, fetchVars, walkVars, batchVars,
                   concVars, hookVars, session, launched, closed, prev_fail, ops,
                   fetches>>

\* The `async with` block ends: __aexit__ calls self.driver.quit() directly.
StepExit ==
    /\ pc = "call"
    /\ closed' = closed \cup {session}
    /\ ops' = ops \cup {Op("quit", "loop")}
    /\ pc' = "done"
    /\ UNCHANGED <<funcVars, mode, response, pending_exc, browserVars, fetchVars,
                   walkVars, batchVars, concVars, hookVars, session, launched,
                   prev_fail, inflight, fetches>>

FetchNext ==
    \/ StepConstruct
    \/ StepFetchCall
    \/ StepGet
    \/ StepGetReturns
    \/ StepGetRaises
    \/ StepReadReturns
    \/ StepReadRaises
    \/ StepExcept
    \/ StepExceptRepair
    \/ StepExceptRepairRaises
    \/ StepExhausted
    \/ StepCancel
    \/ StepWorkerEnds
    \/ StepExit

FetchSpec == FetchInit /\ [][FetchNext]_vars

\* ------------------------------------------- ConcSpec: simultaneous calls
\* Several API calls in progress at once on the one event loop. Every call
\* runs `async with SeekJobCardsScraper(use_selenium=True) as scraper`: its
\* own scraper object, whose attribute self.driver is the only reference to
\* a browser the code keeps. chrome[c] lists the browsers call c launched,
\* each with whether it runs and the calls that drove or quit it. calls[c]
\* is call c: where it is, its scraper's self.driver (<<>>: not set, else
\* <<launching call, index>>) and the navigations it made.
Callers == 1..MaxCalls

ConcInit ==
    /\ FuncIdle
    /\ mode = "conc" /\ pc = "conc"
    /\ ServiceIdle /\ WalkIdle /\ BatchIdle
    /\ chrome = [c \in Callers |-> <<>>]
    /\ calls = [c \in Callers |-> [at |-> "start", driver |-> <<>>, navs |-> 0]]
    /\ HookIdle /\ StepIdle

\* webdriver.Chrome(...) run by call c: a new browser.
Launched(ch, c) == [ch EXCEPT ![c] = Append(@, [state |-> "open", users |-> {}])]

\* browser d after call c acted on it; d.quit() also ends it
Touched(ch, d, c, quit) ==
    [ch EXCEPT ![d[1]][d[2]] = [state |-> IF quit THEN "closed" ELSE @.state,
                                users |-> @.users \cup {c}]]

\* A scraper class that keeps the driver in a class attribute: the launch by
\* one call replaces the driver of every scraper object.
CallConstructShared(c) ==
    /\ calls[c].at = "start"
    /\ chrome' = Launched(chrome, c)
    /\ calls' = [d \in Callers |->
                    IF d = c
                    THEN [calls[d] EXCEPT !.at = "run", !.driver = <<c, Len(chrome[c]) + 1>>]
                    ELSE [calls[d] EXCEPT !.driver = <<c, Len(chrome[c]) + 1>>]]
    /\ UNCHANGED <<funcVars, ctlVars, browserVars, fetchVars, walkVars, batchVars, hookVars, stepVars>>

\* SeekJobCardsScraper(use_selenium=True): __init__ runs _setup_selenium,
\* which assigns the new browser to this object's self.driver.
CallConstruct(c) ==
    /\ calls[c].at = "start"
    /\ chrome' = Launched(chrome, c)
    /\ calls' = [calls EXCEPT ![c].at = "run", ![c].driver = <<c, Len(chrome[c]) + 1>>]
    /\ UNCHANGED <<funcVars, ctlVars, browserVars, fetchVars, walkVars, batchVars, hookVars, stepVars>>

\* One attempt of _fetch_with_selenium: self.driver.get(url) on the call's own
\* scraper object.
CallNavigate(c) ==
    /\ calls[c].at = "run" /\ calls[c].navs < MaxNavs
    /\ chrome' = Touched(chrome, calls[c].driver, c, FALSE)
    /\ calls' = [calls EXCEPT ![c].navs = @ + 1]
    /\ UNCHANGED <<funcVars, ctlVars, browserVars, fetchVars, walkVars, batchVars, hookVars, stepVars>>

\* An attempt that fails with a fatal session error and is repaired:
\* self.driver.quit(), then self._setup_selenium() on the same object.
CallRepair(c) ==
    /\ calls[c].at = "run" /\ calls[c].navs < MaxNavs
    /\ chrome' = Launched(Touched(chrome, calls[c].driver, c, TRUE), c)
    /\ calls' = [calls EXCEPT ![c].navs = @ + 1,
                              ![c].driver = <<c, Len(chrome[c]) + 1>>]
    /\ UNCHANGED <<funcVars, ctlVars, browserVars, fetchVars, walkVars, batchVars, hookVars, stepVars>>

\* __aexit__ of the call's scraper object: self.driver.quit()
CallExit(c) ==
    /\ calls[c].at = "run"
    /\ chrome' = Touched(chrome, calls[c].driver, c, TRUE)
    /\ calls' = [calls EXCEPT ![c].at = "done"]
    /\ UNCHANGED <<funcVars, ctlVars, browserVars, fetchVars, walkVars, batchVars, hookVars, stepVars>>

ConcNext ==
    \E c \in Callers :
        \/ CallConstruct(c)
        \/ CallNavigate(c)
        \/ CallRepair(c)
        \/ CallExit(c)

ConcSpec == ConcInit /\ [][ConcNext]_vars

\* ------------------------------------------------ FuncSpec: the helpers
\* Job urls in their two shapes: what precedes '/job/', the id, and what
\* follows the id (nothing, or '?' and a query string).
UrlSamples ==
    [kind : {"url"},
     base : {<<"h","t","t","p","s",":","/","/","s","i","t","e">>,
             BaseUrl,
             <<"h","t","t","p","s",":","/","/","s","i","t","e","/","s","e","a","r","c","h","?","q","=","a">>},
     id : {<<"1","2","3">>, <<"7">>, <<"8","0","1","2","3","4","5","6">>, <<"a","/","j","o","b","/","b">>},
     query : {<<>>, <<"?">>, <<"?","r","e","f","=","x">>, <<"?","a","=","1","?","b","=","2">>,
              <<"?","n","e","x","t","=","/","j","o","b","/","9">>}]

UrlText(d) == d.base \o JobPath \o d.id \o d.query

\* Job titles: titles that hold the phrases of two rules of the table (in
\* either order, as written in the table or in capitals), and titles written
\* out.
TitleSamples ==
    [kind : {"title"}, first : 1..Len(CategoryRules), second : 1..Len(CategoryRules),
     upper : BOOLEAN]

TitleText(d) ==
    LET text == CategoryRules[d.first][1] \o <<" ">> \o CategoryRules[d.second][1]
    IN  IF d.upper THEN upper(text) ELSE text

TChef == <<"H","e","a","d"," ","C","h","e","f">>
TLeadAnalyst == <<"L","e","a","d"," ","A","n","a","l","y","s","t",","," ","D","a","t","a">>

PlainTitles ==
    {TSeniorDataAnalyst, TSoftwareEngineer, TitleNotFound, TChef, TLeadAnalyst, <<>>}

\* One run of a fetch on given per-attempt outcomes: the attempts made, the
\* waits (seconds) in order, and how the call ended ("soup", "None", "raise").
Run(n, waits, result) == [attempts |-> n, sleeps |-> waits, result |-> result]

\* _fetch_with_selenium(url, max_retries) when attempt a has outcome
\* outcomes[a + 1]: "ok", or any other value for a TimeoutException, a
\* WebDriverException without session loss, or another Exception.
RECURSIVE SeleniumFrom(_, _, _, _)
SeleniumFrom(outcomes, retries, a, waits) ==
    IF a >= retries THEN Run(a, waits, "None")
    ELSE IF outcomes[a + 1] = "ok" THEN Run(a + 1, waits, "soup")
    ELSE SeleniumFrom(outcomes, retries, a + 1,
                      IF a < retries - 1 THEN Append(waits, 2 ^ a) ELSE waits)

fetch_with_selenium(outcomes, retries) == SeleniumFrom(outcomes, retries, 0, <<>>)

\* _fetch_with_aiohttp(url, max_retries) when attempt a has outcome
\* outcomes[a + 1]: "ok" (status 200), "forbidden" (status 403), "status"
\* (another status), "exception" (session.get or response.text raises).
RECURSIVE AiohttpFrom(_, _, _, _)
AiohttpFrom(outcomes, retries, a, waits) ==
    IF a >= retries THEN Run(a, waits, "None")
    ELSE CASE outcomes[a + 1] = "ok" -> Run(a + 1, waits, "soup")
           [] outcomes[a + 1] = "forbidden" ->
                 AiohttpFrom(outcomes, retries, a + 1, Append(waits, 2 ^ a))
           [] outcomes[a + 1] = "status" ->
                 AiohttpFrom(outcomes, retries, a + 1, waits)
           [] OTHER ->
                 IF a < retries - 1
                 THEN AiohttpFrom(outcomes, retries, a + 1, Append(waits, 2))
                 ELSE Run(a + 1, waits, "raise")

fetch_with_aiohttp(outcomes, retries) == AiohttpFrom(outcomes, retries, 0, <<>>)

\* Per-attempt outcomes of a fetch with max_retries = n.
HttpOutcomes(n) == [1..n -> {"ok", "forbidden", "status", "exception"}]
BrowserOutcomes(n) == [1..n -> {"ok", "fail"}]

\* Detail pages that differ in their location elements only: the container
\* [data-automation="job-detail-location"] (its text, blank in one variant),
\* the first a[class*="gepq850"] and the first a inside it, and the first
\* a[href*="/jobs/in-"][class*="gepq850"] of the page. Anchors inside the
\* container exist only with the container, and a styled anchor is an anchor.
TLocContainer == <<" ","S","y","d","n","e","y"," ","N","S","W"," ","(","H","y","b","r","i","d",")"," ">>
TLocStyled == <<"S","y","d","n","e","y"," ","N","S","W">>
TLocAnchor == <<"\n","N","o","r","t","h"," ","S","y","d","n","e","y">>
TLocPagewide == <<"M","e","l","b","o","u","r","n","e"," ","V","I","C"," ">>
LocationPages ==
    {[SitePage(<<"1">>) EXCEPT !.loc_container = c, !.loc_styled = st,
                               !.loc_anchor = an, !.loc_pagewide = pw] :
        c \in {None, TLocContainer, <<" ", " ">>}, st \in {None, TLocStyled},
        an \in {None, TLocAnchor}, pw \in {None, TLocPagewide}}

\* The texts of the spans under [data-automation="jobDetailsPage"], in
\* document order: a brand name, a by-line, a posting age with surrounding
\* whitespace, an age without the word "Posted".
TPostedBy == <<"P","o","s","t","e","d"," ","b","y"," ","S","E","E","K">>
TPosted3dPadded == <<" ">> \o TPosted3d \o <<"\n">>
TAgeOnly == <<"2","h"," ","a","g","o">>
SpanTexts == {TSeek, TPostedBy, TPosted3dPadded, TAgeOnly}
SpanLists == UNION {[1..k -> SpanTexts] : k \in 0..3}

\* The calls FuncSpec makes: the helper, its arguments, and for generated
\* arguments the parts they were generated from.
FuncCalls ==
    \/ /\ fn = "_is_within_time_limit"
       /\ args \in PostedTexts \X LimitTexts
       /\ sample = <<>>
    \/ /\ fn = "_convert_to_days"
       /\ sample \in {<<d>> : d \in AgeSamples}
       /\ args = <<AgeText(sample[1])>>
    \/ /\ fn = "_convert_to_days"
       /\ args \in {<<t>> : t \in MalformedTexts}
       /\ sample = <<[kind |-> "malformed"]>>
    \/ /\ fn = "extract_job_id"
       /\ sample \in {<<d>> : d \in UrlSamples}
       /\ args = <<UrlText(sample[1])>>
    \/ /\ fn = "_fetch_with_aiohttp"
       /\ \E n \in 1..MaxAttempts : args \in {<<o, n>> : o \in HttpOutcomes(n)}
       /\ sample = <<[kind |-> "outcomes"]>>
    \/ /\ fn = "_fetch_with_selenium"
       /\ \E n \in 1..MaxAttempts : args \in {<<o, n>> : o \in BrowserOutcomes(n)}
       /\ sample = <<[kind |-> "outcomes"]>>
    \/ /\ fn = "categorize_job_type"
       /\ sample \in {<<d>> : d \in TitleSamples}
       /\ args = <<TitleText(sample[1])>>
    \/ /\ fn = "categorize_job_type"
       /\ args \in {<<t>> : t \in PlainTitles}
       /\ sample = <<[kind |-> "plain"]>>
    \/ /\ fn = "posting_time"
       /\ args \in {<<spans>> : spans \in SpanLists}
       /\ sample = <<[kind |-> "spans"]>>
    \/ /\ fn = "extract_location"
       /\ args \in {<<page>> : page \in
                      {q \in LocationPages :
                          /\ q.loc_container = None => (q.loc_styled = None /\ q.loc_anchor = None)
                          /\ q.loc_styled # None => q.loc_anchor # None}}
       /\ sample = <<[kind |-> "page"]>>

FuncInit ==
    /\ FuncCalls
    /\ ret = <<>>
    /\ mode = "func" /\ pc = "func"
    /\ ServiceIdle /\ WalkIdle /\ BatchIdle /\ ConcIdle /\ HookIdle /\ StepIdle

Call_is_within_time_limit ==
    /\ fn = "_is_within_time_limit"
    /\ ret = <<>>
    /\ ret' = <<_is_within_time_limit(args[1], args[2])>>
    /\ UNCHANGED <<fn, args, sample, ctlVars, browserVars, fetchVars, walkVars, batchVars, concVars, hookVars, stepVars>>

Call_convert_to_days ==
    /\ fn = "_convert_to_days"
    /\ ret = <<>>
    /\ ret' = <<_convert_to_days(args[1])>>
    /\ UNCHANGED <<fn, args, sample, ctlVars, browserVars, fetchVars, walkVars, batchVars, concVars, hookVars, stepVars>>

Call_extract_job_id ==
    /\ fn = "extract_job_id"
    /\ ret = <<>>
    /\ ret' = <<extract_job_id(args[1])>>
    /\ UNCHANGED <<fn, args, sample, ctlVars, browserVars, fetchVars, walkVars, batchVars, concVars, hookVars, stepVars>>

Call_categorize_job_type ==
    /\ fn = "categorize_job_type"
    /\ ret = <<>>
    /\ ret' = <<categorize_job_type(args[1])>>
    /\ UNCHANGED <<fn, args, sample, ctlVars, browserVars, fetchVars, walkVars, batchVars, concVars, hookVars, stepVars>>

Call_extract_location ==
    /\ fn = "extract_location"
    /\ ret = <<>>
    /\ ret' = <<extract_location(args[1])>>
    /\ UNCHANGED <<fn, args, sample, ctlVars, browserVars, fetchVars, walkVars, batchVars, concVars, hookVars, stepVars>>

\* The posting_time block of extract_job_details on the spans of a page.
Call_posting_time ==
    /\ fn = "posting_time"
    /\ ret = <<>>
    /\ ret' = <<posting_time_of(args[1])>>
    /\ UNCHANGED <<fn, args, sample, ctlVars, browserVars, fetchVars, walkVars, batchVars, concVars, hookVars, stepVars>>

Call_fetch_with_aiohttp ==
    /\ fn = "_fetch_with_aiohttp"
    /\ ret = <<>>
    /\ ret' = <<fetch_with_aiohttp(args[1], args[2])>>
    /\ UNCHANGED <<fn, args, sample, ctlVars, browserVars, fetchVars, walkVars, batchVars, concVars, hookVars, stepVars>>

Call_fetch_with_selenium ==
    /\ fn = "_fetch_with_selenium"
    /\ ret = <<>>
    /\ ret' = <<fetch_with_selenium(args[1], args[2])>>
    /\ UNCHANGED <<fn, args, sample, ctlVars, browserVars, fetchVars, walkVars, batchVars, concVars, hookVars, stepVars>>

FuncNext ==
    \/ Call_categorize_job_type
    \/ Call_posting_time
    \/ Call_extract_location
    \/ Call_fetch_with_aiohttp
    \/ Call_fetch_with_selenium
    \/ Call_is_within_time_limit
    \/ Call_convert_to_days
    \/ Call_extract_job_id

FuncSpec == FuncInit /\ [][FuncNext]_vars

\* ------------------------------------------------- properties of the walk
\* The cards of the fetched pages in page order, then document order.
RECURSIVE FeedFrom(_, _)
FeedFrom(pages, p) ==
    IF pages = <<>> THEN <<>>
    ELSE [i \in 1..Len(pages[1].cards) |->
              [page |-> p, idx |-> i, card |-> pages[1].cards[i]]]
         \o FeedFrom(Tail(pages), p + 1)
Feed == FeedFrom(pagesFetched, 1)

\* The reference the walk builds for a feed entry.
RefOf(e) ==
    [job_id |-> JobId(e.card, e.page, e.idx),
     posted_date |-> extract_posting_time(e.card),
     url |-> JobUrl(e.card, e.page, e.idx)]

\* The references of the linked cards among the first n feed entries.
RECURSIVE LinkedRefs(_, _)
LinkedRefs(feed, n) ==
    IF n = 0 THEN <<>>
    ELSE LinkedRefs(feed, n - 1)
         \o (IF feed[n].card.link = "href" THEN <<RefOf(feed[n])>> ELSE <<>>)

\* The ages, in days, that the texts of the modelled cards and limits stand
\* for: 2 hours, 1 day, 5 days; no age for a missing element or for "soon".
AgeDays(t) ==
    CASE t = T2h -> Frac(2, 24)
      [] t = T1d -> Frac(1, 1)
      [] t = T5d -> Frac(5, 1)
      [] t = L1d -> Frac(1, 1)
      [] OTHER -> Inf

\* The posting age of a card: that of its date element, none when it has none.
CardAge(card) == AgeDays(card.date)

\* A linked card whose posting age is outside the configured window.
IsOutside(e) ==
    /\ e.card.link = "href"
    /\ ~DaysLt(CardAge(e.card), AgeDays(posted_date_limit))

\* Position in the feed of the first linked card outside the window (0: none).
FirstOutside(feed) ==
    IF \E k \in 1..Len(feed) : IsOutside(feed[k])
    THEN CHOOSE k \in 1..Len(feed) :
            IsOutside(feed[k]) /\ \A j \in 1..(k - 1) : ~IsOutside(feed[j])
    ELSE 0

\* urljoin(base_url, href) of the first card of page 1
Url11 == <<"h","t","t","p","s",":","/","/","w","w","w",".","s","e","e","k",".","c","o","m",".","a","u","/","j","o","b","/","1","1","?","t","y","p","e","=","s","t","a","n","d","a","r","d">>

\* The scenario of the specification: one page with cards aged 2h, 1d, 5d and
\* a link to page 2, window "1d ago".
ScenarioPage ==
    [cards |-> <<[link |-> "href", href |-> "job", date |-> T2h],
                 [link |-> "href", href |-> "job", date |-> T1d],
                 [link |-> "href", href |-> "job", date |-> T5d]>>,
     next |-> TRUE]

\* C1: in browser mode fetch never propagates an exception: it ends with
\* parsed markup or with the terminal-failure value None, whatever the
\* per-attempt outcomes and the outcome of the session repair are.
C1_FetchNeverRaises ==
    pc = "fetch_ret" => (~fetch_exc /\ Len(soup) <= 1)

\* C2: scrape_job_cards never raises: unless the caller cancels it, it ends
\* by returning a sequence of listing references (job_id, posted_date, url),
\* and that sequence is empty when the fetch of the first page failed
\* (returned None or raised).
C2_ListCardsNeverRaises ==
    /\ scrape_ret # <<"raise">>
    /\ (mode = "cards" /\ pc = "aexit" /\ pending_exc = "none") =>
          /\ Len(scrape_ret) = 2 /\ scrape_ret[1] = "return"
          /\ \A k \in 1..Len(scrape_ret[2]) :
                DOMAIN scrape_ret[2][k] = {"job_id", "posted_date", "url"}
    /\ (stop \in {"nosoup", "except"} /\ current_page = 1) =>
          scrape_ret = <<"return", <<>>>>

\* C2 witness: the fetch of the first page raised (a failed session repair)
\* and the walk still returned the empty sequence.
C2_Witness ==
    /\ mode = "cards" /\ pc = "aexit" /\ stop = "except" /\ current_page = 1
    /\ scrape_ret = <<"return", <<>>>>

\* C3: with a time window configured, the walk stops at the first linked
\* card, in page order then document order, whose posting age is outside the
\* window: what it has collected is at every moment the linked cards before
\* that card and never a card after it, the page holding that card is the
\* last page fetched, the walk ends there and returns exactly the linked
\* cards that precede it; ages [2h, 1d, 5d] with window "1d ago" return the
\* 2h card only and page 2 is not fetched.
C3_WindowStop ==
    (mode = "cards" /\ Truthy(posted_date_limit)) =>
        LET feed == Feed
            k == FirstOutside(feed)
        IN  /\ k # 0 =>
                /\ Len(pagesFetched) = feed[k].page
                /\ current_page = feed[k].page
                /\ pc \in {"cards", "aexit"}
                /\ stop \in {"", "window"}
                /\ \E n \in 0..(k - 1) : job_cards_data = LinkedRefs(feed, n)
                /\ pc = "aexit" =>
                      /\ stop = "window"
                      /\ scrape_ret = <<"return", LinkedRefs(feed, k - 1)>>
            /\ stop = "window" => k # 0
            /\ (pagesFetched = <<ScenarioPage>> /\ posted_date_limit = L1d
                    /\ scrape_ret # <<>>) =>
                  scrape_ret = <<"return", <<[job_id |-> <<"1","1">>,
                                              posted_date |-> T2h,
                                              url |-> Url11]>>>>

\* C3 witness: the scenario ran to its end: the walk returned the 2h card
\* alone and fetched one page.
C3_Witness ==
    /\ pc = "aexit" /\ posted_date_limit = L1d /\ stop = "window"
    /\ pagesFetched = <<ScenarioPage>>
    /\ Len(scrape_ret[2]) = 1

\* C7: every browser that was opened has been closed when the invocation
\* has ended, on every exit path.
C7_BrowsersReleased ==
    pc = "done" => (driver # "open" /\ leaked = 0)

\* C10 as stated: with a non-empty limit that cannot be parsed the window
\* filters nothing: every linked card passes, also one whose posting text is
\* missing, and the walk never stops early because of the window.
C10_UnparseableLimitNoFiltering ==
    (mode = "cards" /\ posted_date_limit = LSoon) => stop # "window"

\* C10 amended: with a non-empty limit that cannot be parsed, within_window
\* is true for exactly the posted texts that parse to a finite age: every
\* linked card with a parseable age is collected and the walk never stops at
\* one; a linked card whose posting text is missing or unparseable is outside
\* (inf < inf is false), is never collected, and the walk stops at it.
C10_UnparseableLimitFiniteOnly ==
    (mode = "cards" /\ posted_date_limit = LSoon) =>
        /\ stop = "window" =>
              (job_cards[card_i].link = "href" /\ CardAge(job_cards[card_i]) = Inf)
        /\ \A k \in 1..Len(job_cards_data) :
              AgeDays(job_cards_data[k].posted_date) # Inf
        /\ pc = "cards" =>
              /\ job_cards_data =
                    LinkedRefs(Feed, CardCount(pagesFetched) - Len(job_cards) + card_i - 1)
              /\ \A i \in 1..(card_i - 1) :
                    job_cards[i].link = "href" => CardAge(job_cards[i]) # Inf

\* C10 witness: limit "soon"; a card aged 2h was collected, then the walk
\* stopped at a linked card without a date element.
C10_Witness ==
    /\ posted_date_limit = LSoon /\ stop = "window"
    /\ Len(job_cards_data) = 1 /\ job_cards_data[1].posted_date = T2h
    /\ job_cards[card_i].date = None

\* C9: within_window is true for every posted text when the limit is absent
\* or empty; otherwise it is true exactly when to_days(posted) is strictly
\* less than to_days(limit), so a posting exactly as old as the limit (1d
\* against "1d ago", 24h against "1d ago") is outside the window.
C9_WithinWindow ==
    (fn = "_is_within_time_limit" /\ ret # <<>>) =>
        LET p == args[1]
            l == args[2]
        IN  /\ (l = None \/ l = <<>>) => ret[1] = TRUE
            /\ (l # None /\ l # <<>>) =>
                  (ret[1] = TRUE <=> DaysLt(_convert_to_days(p), _convert_to_days(l)))
            /\ (l # None /\ l # <<>> /\ DaysEq(_convert_to_days(p), _convert_to_days(l)))
                  => ret[1] = FALSE
            /\ (p \in {T1d, T24h} /\ l \in {L1d, T24h}) => ret[1] = FALSE
            /\ (p \in {T2h, T120m} /\ l = L1d) => ret[1] = TRUE

\* C9 witness: a 24h-old posting was tested against the limit "1d ago".
C9_Witness ==
    fn = "_is_within_time_limit" /\ ret = <<FALSE>> /\ args = <<T24h, L1d>>

\* ------------------------------------------- properties of the detail batch
\* The record a listing's page yields when no try block raises, written out
\* for each page of SitePage.
NoFaultRecord(job_id) ==
    CASE job_id = <<"1">> ->
           [url |-> <<"h","t","t","p","s",":","/","/","w","w","w",".","s","e","e","k",".","c","o","m",".","a","u","/","j","o","b","/","1">>,
            job_id |-> <<"1">>,
            job_title |-> <<"S","e","n","i","o","r"," ","D","a","t","a"," ","A","n","a","l","y","s","t">>,
            job_location |-> <<"S","y","d","n","e","y"," ","N","S","W">>,
            company |-> <<"A","c","m","e">>,
            job_description |-> <<"S","Q","L"," ","a","n","d"," ","d","a","s","h","b","o","a","r","d","s">>,
            posting_time |-> <<"P","o","s","t","e","d"," ","3","d"," ","a","g","o">>,
            job_industry |-> <<"I","C","T">>,
            job_work_type |-> <<"F","u","l","l"," ","t","i","m","e">>,
            job_type |-> "Data Analyst"]
      [] job_id = <<"2">> ->
           [url |-> <<"h","t","t","p","s",":","/","/","w","w","w",".","s","e","e","k",".","c","o","m",".","a","u","/","j","o","b","/","2">>,
            job_id |-> <<"2">>,
            job_title |-> <<"S","o","f","t","w","a","r","e"," ","E","n","g","i","n","e","e","r">>,
            job_location |-> <<"L","o","c","a","t","i","o","n"," ","n","o","t"," ","f","o","u","n","d">>,
            company |-> <<"A","c","m","e">>,
            job_description |-> <<"S","Q","L"," ","a","n","d"," ","d","a","s","h","b","o","a","r","d","s">>,
            posting_time |-> <<"P","o","s","t","i","n","g"," ","t","i","m","e"," ","n","o","t"," ","f","o","u","n","d">>,
            job_industry |-> <<"I","n","d","u","s","t","r","y"," ","n","o","t"," ","f","o","u","n","d">>,
            job_work_type |-> <<"F","u","l","l"," ","t","i","m","e">>,
            job_type |-> "Data Engineer"]
      [] OTHER ->
           [url |-> <<"h","t","t","p","s",":","/","/","w","w","w",".","s","e","e","k",".","c","o","m",".","a","u","/","j","o","b","/","3">>,
            job_id |-> <<"3">>,
            job_title |-> <<"T","i","t","l","e"," ","n","o","t"," ","f","o","u","n","d">>,
            job_location |-> <<"L","o","c","a","t","i","o","n"," ","n","o","t"," ","f","o","u","n","d">>,
            company |-> <<"C","o","m","p","a","n","y"," ","n","o","t"," ","f","o","u","n","d">>,
            job_description |-> <<"D","e","s","c","r","i","p","t","i","o","n"," ","n","o","t"," ","f","o","u","n","d">>,
            posting_time |-> <<"P","o","s","t","i","n","g"," ","t","i","m","e"," ","n","o","t"," ","f","o","u","n","d">>,
            job_industry |-> <<"I","n","d","u","s","t","r","y"," ","n","o","t"," ","f","o","u","n","d">>,
            job_work_type |-> <<"W","o","r","k"," ","t","y","p","e"," ","n","o","t"," ","f","o","u","n","d">>,
            job_type |-> "unknown"]

AllFields ==
    {"url", "job_id", "job_title", "job_location", "company", "job_description",
     "posting_time", "job_type", "job_industry", "job_work_type"}

\* The keys whose values are page text (or the text sentinel).
PageTextFields ==
    {"job_title", "job_location", "company", "job_description", "posting_time",
     "job_industry", "job_work_type"}

\* extract_job_details has returned for a page that loaded.
LoadedDetailReturned ==
    /\ mode = "batch" /\ pc = "detail_ret" /\ soup # <<>>
    /\ Len(det_ret) = 2

\* The job_ids entries at the positions keep marks, in input order.
RECURSIVE Kept(_, _, _)
Kept(ids, keep, k) ==
    IF k > Len(ids) \/ k > Len(keep) THEN <<>>
    ELSE (IF keep[k] THEN <<ids[k]>> ELSE <<>>) \o Kept(ids, keep, k + 1)

\* The job_id of each collected record, in list order.
EmittedIds == [k \in 1..Len(all_jobs_data) |-> all_jobs_data[k].job_id]

\* An extract_job_details call is in progress or has just returned.
Extracting == pc \in {"fetch", "fetch_ret", "fields", "detail_ret"}

\* C4: when the page of a listing failed to load on all 3 attempts,
\* extract_job_details returns None (no dict, no exception), and it returns
\* None only after exactly 3 navigation attempts.
C4_LoadFailureReturnsNone ==
    (mode = "batch" /\ pc = "detail_ret") =>
        /\ (navs = 3 /\ soup = <<>>) => (det_ret = <<"None">> /\ ~fetch_exc)
        /\ det_ret = <<"None">> => (navs = 3 /\ attempt = 3 /\ soup = <<>> /\ ~fetch_exc)

C4_Witness ==
    /\ mode = "batch" /\ pc = "detail_ret"
    /\ det_ret = <<"None">> /\ navs = 3 /\ sleeps = <<1, 2>>

\* C5 (as claimed): a successful batch response has one entry per input id,
\* at its position, so job_count equals the number of input ids.
C5_OneEntryPerInputId ==
    (mode = "batch" /\ pc = "done" /\ response = "success") =>
        /\ Len(all_jobs_data) = Len(job_ids)
        /\ \A k \in 1..Len(all_jobs_data) : all_jobs_data[k].job_id = job_ids[k]

\* C6: the batch handles one listing id at a time in input order: while an
\* extraction runs it is the one for position job_i, every earlier position is
\* finished and no later one has started; the ids of the collected records are
\* the input ids of some of the finished positions, in input order.
C6_SequentialInOrder ==
    mode = "batch" =>
        /\ job_i \in 1..(Len(job_ids) + 1)
        /\ Len(all_jobs_data) <= job_i - 1
        /\ \E keep \in [1..(job_i - 1) -> BOOLEAN] : EmittedIds = Kept(job_ids, keep, 1)
        /\ Extracting =>
              /\ job_i <= Len(job_ids)
              /\ job_details.job_id = job_ids[job_i]
              /\ job_details.url = JobDetailUrl(job_ids[job_i])
        /\ ~Extracting => (job_details = <<>> /\ det_ret = <<>> /\ navs = 0)

C6_Witness ==
    /\ mode = "batch" /\ pc = "done" /\ response = "success"
    /\ job_ids = << <<"2">>, <<"1">> >>
    /\ EmittedIds = job_ids

\* C8 (as claimed): for a page that loaded the dict has all ten keys, a try
\* block that raised left its sentinel, and every other key has the value of
\* the fault-free extraction of the same page.
C8_OnlyFailedFieldAffected ==
    LoadedDetailReturned =>
        LET d == det_ret[2]
            ok == NoFaultRecord(job_ids[job_i])
        IN /\ DOMAIN d = AllFields
           /\ d.url = ok.url /\ d.job_id = ok.job_id
           /\ \A f \in PageTextFields :
                 d[f] = IF f \in raised THEN Sentinel(f) ELSE ok[f]
           /\ d.job_type = IF "job_type" \in raised THEN "unknown" ELSE ok.job_type

\* C8 (amended): as above, except that job_type is computed from the job_title
\* stored in the dict: when the title block raised, job_type is "unknown" too.
C8_FieldBoundariesTitleDerived ==
    LoadedDetailReturned =>
        LET d == det_ret[2]
            ok == NoFaultRecord(job_ids[job_i])
        IN /\ DOMAIN d = AllFields
           /\ d.url = ok.url /\ d.job_id = ok.job_id
           /\ \A f \in PageTextFields :
                 d[f] = IF f \in raised THEN Sentinel(f) ELSE ok[f]
           /\ d.job_type = IF "job_type" \in raised \/ "job_title" \in raised
                           THEN "unknown" ELSE ok.job_type

C8_Witness ==
    /\ LoadedDetailReturned
    /\ job_ids[job_i] = <<"1">> /\ raised = {"job_title"}
    /\ det_ret[2].job_title = TitleNotFound /\ det_ret[2].job_type = "unknown"
    /\ det_ret[2].job_location = TSydney

\* ------------------------------------------------ properties of the helpers
\* C11: _convert_to_days turns n minutes into n/1440 days, n hours into n/24
\* days and n days into n, whatever the letter case, the "posted" prefix and
\* the surrounding whitespace; so "Posted 120m ago" and "Posted 2h ago" are
\* both 1/12 day, and "Posted 1d ago" is 1.
C11_UnitConversion ==
    (fn = "_convert_to_days" /\ ret # <<>> /\ sample[1].kind = "age") =>
        LET d == sample[1]
        IN  /\ ret[1].den # 0
            /\ d.unit = "m" => DaysEq(ret[1], Frac(d.n, 1440))
            /\ d.unit = "h" => DaysEq(ret[1], Frac(d.n, 24))
            /\ d.unit = "d" => DaysEq(ret[1], Frac(d.n, 1))
            /\ args[1] \in {T120m, T2h} => DaysEq(ret[1], Frac(1, 12))
            /\ args[1] = T1d => ret[1].num = ret[1].den

C11_Witness ==
    /\ fn = "_convert_to_days" /\ args = <<T120m>>
    /\ ret = <<Frac(120, 1440)>>

\* C12: _convert_to_days returns infinity for an absent, empty or sentinel
\* text and for a text that does not start with a count followed by m, h, d.
C12_MalformedIsInfinite ==
    (fn = "_convert_to_days" /\ ret # <<>> /\ sample[1].kind = "malformed") =>
        ret = <<Inf>>

C12_Witness ==
    /\ fn = "_convert_to_days" /\ args = <<T30plus>>
    /\ ret = <<Inf>>

Url123Query == <<"h","t","t","p","s",":","/","/","s","i","t","e","/","j","o","b","/","1","2","3","?","r","e","f","=","x">>
Url123 == <<"h","t","t","p","s",":","/","/","s","i","t","e","/","j","o","b","/","1","2","3">>

\* C13: for a url that holds '/job/' and then an id without '?', extract_job_id
\* returns that id, whether the url ends there or goes on with '?' and a query
\* string; the url rebuilt from the result without a query gives the same id;
\* "https://site/job/123?ref=x" and "https://site/job/123" both give "123".
C13_IdUrlShapeInvariant ==
    (fn = "extract_job_id" /\ ret # <<>>) =>
        LET d == sample[1]
        IN  /\ ret[1] = d.id
            /\ extract_job_id(d.base \o JobPath \o ret[1]) = ret[1]
            /\ args[1] \in {Url123Query, Url123} => ret[1] = <<"1","2","3">>

C13_Witness ==
    /\ fn = "extract_job_id" /\ args = <<Url123Query>>
    /\ ret = << <<"1","2","3">> >>

\* C14 (as claimed): every reference the walk has collected holds a job_id and
\* a url, and the url holds '/job/' followed by that job_id.
C14_UrlHoldsIdAfterJobPath ==
    mode = "cards" =>
        \A k \in 1..Len(job_cards_data) :
            /\ {"job_id", "url"} \subseteq DOMAIN job_cards_data[k]
            /\ Contains(job_cards_data[k].url, JobPath \o job_cards_data[k].job_id)

\* The rules of the table whose phrase occurs in the lower-cased title.
MatchingRules(job_title) ==
    {r \in 1..Len(CategoryRules) : Contains(lower(job_title), CategoryRules[r][1])}

\* C15: categorize_job_type returns the category of the earliest rule of the
\* table whose phrase occurs in the lower-cased title, also when several rules
\* match, and "unknown" when none does; "Senior Data Analyst" gives
\* "Data Analyst", "Software Engineer" gives "Data Engineer".
C15_EarliestRuleWins ==
    (fn = "categorize_job_type" /\ ret # <<>>) =>
        LET matching == MatchingRules(args[1])
        IN  /\ matching = {} => ret[1] = "unknown"
            /\ matching # {} =>
                  \E r \in matching :
                      /\ \A q \in matching : r <= q
                      /\ ret[1] = CategoryRules[r][2]
            /\ sample[1].kind = "title" =>
                  /\ {sample[1].first, sample[1].second} \subseteq matching
                  /\ ret[1] # "unknown"
            /\ args[1] = TSeniorDataAnalyst => ret[1] = "Data Analyst"
            /\ args[1] = TSoftwareEngineer => ret[1] = "Data Engineer"
            /\ args[1] \in {TChef, TitleNotFound, <<>>} => ret[1] = "unknown"

C15_Witness ==
    /\ fn = "categorize_job_type" /\ ret = <<"Data Analyst">>
    /\ sample[1].kind = "title"
    /\ sample[1].first = 25 /\ sample[1].second = 1 /\ sample[1].upper

\* C31: a title that holds the phrase of a rule other than the broad
\* "engineer" rule gets the category of the earliest such rule, whether or
\* not it also holds "engineer"; the broad rule decides only titles that
\* hold "engineer" and the phrase of no other rule.
C31_BroadRuleLast ==
    (fn = "categorize_job_type" /\ ret # <<>>) =>
        LET broad == {r \in 1..Len(CategoryRules) :
                          CategoryRules[r][1] = <<"e","n","g","i","n","e","e","r">>}
            specific == MatchingRules(args[1]) \ broad
        IN  /\ specific # {} =>
                  \E r \in specific :
                      /\ \A q \in specific : r <= q
                      /\ ret[1] = CategoryRules[r][2]
            /\ (specific = {} /\ MatchingRules(args[1]) # {}) =>
                  ret[1] = "Data Engineer"

\* A text with every occurrence of a word taken out.
RECURSIVE WithoutWord(_, _)
WithoutWord(text, word) ==
    IF Len(text) < Len(word) THEN text
    ELSE IF SubSeq(text, 1, Len(word)) = word
         THEN WithoutWord(SubSeq(text, Len(word) + 1, Len(text)), word)
    ELSE <<text[1]>> \o WithoutWord(Tail(text), word)

\* A span text that says when the job was posted: the word "Posted" and,
\* beside it, one of the time-unit tokens.
PostedWithUnit(text) ==
    /\ Contains(text, TPostedWord)
    /\ \E u \in 1..Len(PostingUnits) :
          Contains(WithoutWord(text, TPostedWord), PostingUnits[u])

\* C32: the posting time of a detail record is the stripped text of the
\* first span, in document order, that holds "Posted" together with a
\* time-unit token; a span holding "Posted" without such a token is passed
\* over, and without a qualifying span the field is "Posting time not found".
C32_FirstPostedSpanWithUnit ==
    (fn = "posting_time" /\ ret # <<>>) =>
        LET spans == args[1]
            qualifying == {i \in 1..Len(spans) : PostedWithUnit(strip(spans[i]))}
        IN  /\ qualifying = {} => ret[1] = PostingTimeNotFound
            /\ qualifying # {} =>
                  \E i \in qualifying :
                      /\ \A j \in qualifying : i <= j
                      /\ ret[1] = strip(spans[i])

\* C33: over all fetches of an invocation, every navigation is issued on a
\* browser session on which no fatal session error was observed: after a
\* fatal error a session is replaced before it is driven again, also when
\* the error ended the last attempt of a fetch and the next navigation
\* belongs to the fetch of the next item.
\* (Invocations in which an exception left a fetch, which the loop answers
\* with an error record, are the subject of C1 and are left aside here.)
C33_NoNavigationOnDeadSession ==
    [][(/\ mode \in BatchModes
        /\ \A k \in 1..Len(all_jobs_data) : "error" \notin DOMAIN all_jobs_data[k]
        /\ ~fetch_exc
        /\ navs' = navs + 1) => ~driverFatal]_vars

\* ------------------------------------------- properties of the endpoints
\* C16 (as claimed): a request to /scrape_jc or /scrape_batch_jc during which
\* no browser operation raised up to the endpoint (and which was not
\* cancelled) is answered with the success body.
C16_SuccessUnlessPipelineRaises ==
    (/\ mode \in {"batch", "single"} /\ pc = "done"
     /\ pending_exc \notin {"WebDriverException", "CancelledError"}) =>
        response = "success"

\* The outcomes of an HTTP run as success or failure of each attempt.
AsBrowserOutcomes(outcomes) ==
    [a \in DOMAIN outcomes |-> IF outcomes[a] = "ok" THEN "ok" ELSE "fail"]

\* C17 (as claimed): on the same per-attempt outcomes the aiohttp fetch makes
\* the attempts, the waits and the ending of the selenium fetch; it ends in
\* None, not in an exception, when every attempt failed.
C17_SameRetryContract ==
    (fn = "_fetch_with_aiohttp" /\ ret # <<>>) =>
        /\ ret[1] = fetch_with_selenium(AsBrowserOutcomes(args[1]), args[2])
        /\ ret[1].result # "raise"

\* C20: when the page of a listing did not load (fetch_page gave no soup,
\* by returning None after its attempts or by raising), extract_job_details
\* returns a record with exactly url, job_id and error, the error being the
\* text of the failure; it does not raise.
C20_LoadFailureErrorRecord ==
    (mode = "batch" /\ pc = "detail_ret" /\ soup = <<>>) =>
        det_ret = <<"dict", [url |-> JobDetailUrl(job_ids[job_i]),
                             job_id |-> job_ids[job_i],
                             error |-> ErrorText]>>

\* C28: the invocation has no browser until its first fetch: none is open,
\* and none was launched and lost, while no extract_job_details call was
\* made; a batch without ids ends without ever having had one.
C28_BrowserOnFirstUse ==
    (mode = "batch" /\ job_i = 1 /\ pc \in {"start", "loop", "aexit", "done"}) =>
        (driver = "unset" /\ leaked = 0)

\* The first text of a list of optional texts that is there, stripped;
\* "Location not found" when none is.
RECURSIVE FirstAvailable(_)
FirstAvailable(sources) ==
    IF sources = <<>> THEN LocationNotFound
    ELSE IF sources[1] # None THEN strip(sources[1])
    ELSE FirstAvailable(Tail(sources))

\* C29: the location is the text of the first of: the styled anchor inside
\* the location container, any anchor inside it, the container itself, the
\* page-wide location anchor; on a page with none of them it is "Location
\* not found", and every other field has the value it has on the same page
\* with a location, none of them a "not found" value.
C29_LocationPriority ==
    (fn = "extract_location" /\ ret # <<>>) =>
        LET page == args[1] IN
        /\ ret[1] = FirstAvailable(<<page.loc_styled, page.loc_anchor,
                                      page.loc_container, page.loc_pagewide>>)
        /\ (page.loc_container = None /\ page.loc_pagewide = None) =>
              /\ ret[1] = LocationNotFound
              /\ \A f \in {"job_title", "company", "job_description", "posting_time",
                           "job_industry", "job_work_type"} :
                    /\ TryBody(f, page, <<>>) = TryBody(f, SitePage(<<"1">>), <<>>)
                    /\ TryBody(f, page, <<>>) # Sentinel(f)
              /\ TryBody("job_type", page, [job_title |-> TryBody("job_title", page, <<>>)])
                    # "unknown"

\* C29 witness: a container with a plain anchor before a styled one; the text
\* of the styled anchor was returned.
C29_Witness ==
    /\ fn = "extract_location" /\ ret = <<TLocStyled>>
    /\ args[1].loc_anchor = TLocAnchor /\ args[1].loc_container = TLocContainer
    /\ args[1].loc_pagewide = TLocPagewide

\* -------------------------------------------- the order of the walk
\* C19: the page counter starts at 1; the k-th fetch_page call of a walk is
\* for page k, so pages are fetched in strictly increasing order and each by
\* one call at most; a page is fetched only when every card of the pages
\* before it was processed; and the list the walk holds and returns is the
\* references of the linked cards of a prefix of the feed, i.e. ordered by
\* page and, within a page, by document order.
C19_PagesInOrder ==
    mode = "cards" =>
        /\ fetchCalls = [k \in 1..Len(fetchCalls) |-> k]
        /\ fetchCalls = <<>> => current_page = 1
        /\ pc = "page" => current_page = Len(fetchCalls) + 1
        /\ pc \in {"fetch", "fetch_ret", "cards", "next_page"} =>
              current_page = Len(fetchCalls)
        /\ pc \in {"page", "fetch", "fetch_ret"} =>
              Len(pagesFetched) = current_page - 1
        /\ pc \in {"cards", "next_page"} =>
              /\ Len(pagesFetched) = current_page
              /\ job_cards = pagesFetched[current_page].cards
        /\ pc \in {"next_page", "page"} =>
              job_cards_data = LinkedRefs(Feed, Len(Feed))
        /\ (pc = "aexit" /\ scrape_ret # <<>> /\ scrape_ret[1] = "return") =>
              scrape_ret[2] =
                  LinkedRefs(Feed,
                             CASE stop = "nonext" -> Len(Feed)
                               [] stop = "window" ->
                                    CardCount(pagesFetched) - Len(job_cards) + card_i - 1
                               [] OTHER -> 0)

\* C19 witness: a walk over two pages returned three references, the first
\* two from page 1 in document order, the last from page 2.
C19_Witness ==
    /\ mode = "cards" /\ pc = "aexit" /\ fetchCalls = <<1, 2>> /\ stop = "nonext"
    /\ Len(pagesFetched[1].cards) = 2
    /\ scrape_ret # <<>> /\ scrape_ret[1] = "return" /\ Len(scrape_ret[2]) = 3
    /\ scrape_ret[2][1].job_id = <<"1", "1">>
    /\ scrape_ret[2][2].job_id = <<"1", "2">>
    /\ scrape_ret[2][3].job_id = <<"2", "1">>

\* ------------------------------------------------ cards that are skipped
\* The number of linked cards among the first n of a page's cards, and on
\* the first k pages.
LinkedIn(cards, n) == Cardinality({i \in 1..n : cards[i].link = "href"})

RECURSIVE LinkedOnPages(_, _)
LinkedOnPages(pages, k) ==
    IF k = 0 THEN 0
    ELSE LinkedOnPages(pages, k - 1) + LinkedIn(pages[k].cards, Len(pages[k].cards))

\* The card the loop is at has no usable link or raises while processed.
AtSkippedCard ==
    /\ mode = "cards" /\ pc = "cards" /\ card_i <= Len(job_cards)
    /\ job_cards[card_i].link # "href"

\* C30: at a card without a usable link, or whose processing raises, the
\* step the walk takes goes to the next card of the page and changes
\* neither the list of references nor the outcome of the walk; the walk
\* stops for the window at linked cards only; and while a page is processed
\* the list holds one reference for each linked card before the current
\* one, so no card is left out or added because another was skipped.
C30_UnlinkedCardSkipped ==
    /\ [][AtSkippedCard =>
            /\ card_i' = card_i + 1
            /\ pc' = "cards"
            /\ UNCHANGED <<job_cards, job_cards_data, scrape_ret, stop,
                           current_page, pagesFetched>>]_vars
    /\ []((mode = "cards" /\ stop = "window") => job_cards[card_i].link = "href")
    /\ []((mode = "cards" /\ pc \in {"cards", "next_page"}) =>
              Len(job_cards_data) =
                  LinkedOnPages(pagesFetched, Len(pagesFetched) - 1)
                      + LinkedIn(job_cards, card_i - 1))

\* C30 witness: under the window "1d ago" a page of three cards was
\* processed to its end: the first has no link, the second raises, both
\* carry the date "5d ago", and the third, linked and 2 hours old, is the
\* one reference collected.
C30_Witness ==
    /\ mode = "cards" /\ pc = "cards" /\ posted_date_limit = L1d /\ stop = ""
    /\ Len(job_cards) = 3 /\ card_i = 4
    /\ job_cards[1].link = "none" /\ job_cards[1].date = T5d
    /\ job_cards[2].link = "bad" /\ job_cards[2].date = T5d
    /\ job_cards[3].link = "href" /\ job_cards[3].date = T2h
    /\ Len(job_cards_data) = 1 /\ job_cards_data[1].posted_date = T2h

\* ------------------------------------------- a page that cannot be fetched
\* C35: when the fetch of a result page ends in terminal failure (it
\* returned None after its last attempt, or raised), whichever page it is,
\* the walk returns the empty sequence: the references collected on the
\* pages before are not returned. The failed fetch is the last one made.
C35_FailedPageEmptiesResult ==
    []((mode = "cards" /\ pc = "aexit" /\ stop \in {"nosoup", "except"}) =>
          /\ scrape_ret = <<"return", <<>>>>
          /\ Len(fetchCalls) = current_page
          /\ Len(pagesFetched) = current_page - 1)

\* C35 witness: page 1 yielded references, the fetch of page 2 returned None,
\* and the walk returned the empty sequence.
C35_Witness ==
    /\ mode = "cards" /\ pc = "aexit" /\ stop = "nosoup"
    /\ current_page = 2 /\ Len(job_cards_data) >= 1
    /\ scrape_ret = <<"return", <<>>>>

\* ------------------------------------------- cards without a readable age
\* The walk is at a linked card whose date element is missing or holds a
\* text without a readable age, under a window that can be parsed.
AtAgelessCard ==
    /\ mode = "cards" /\ pc = "cards" /\ card_i <= Len(job_cards)
    /\ AgeDays(posted_date_limit) # Inf
    /\ job_cards[card_i].link = "href"
    /\ CardAge(job_cards[card_i]) = Inf

\* C36: under a window that can be parsed, a linked card whose posting-age
\* text is missing or cannot be parsed ends the walk: the step taken at it
\* returns the references collected before it, no reference without a
\* readable age is ever collected, and once the walk has ended at that card
\* no further card and no further page is visited, whatever their ages.
C36_AgelessCardEndsWalk ==
    /\ [][AtAgelessCard =>
            /\ pc' = "aexit" /\ stop' = "window"
            /\ scrape_ret' = <<"return", job_cards_data>>
            /\ UNCHANGED <<job_cards_data, card_i, pagesFetched, fetchCalls>>]_vars
    /\ []((mode = "cards" /\ AgeDays(posted_date_limit) # Inf) =>
              \A k \in 1..Len(job_cards_data) :
                  AgeDays(job_cards_data[k].posted_date) # Inf)
    /\ []((mode = "cards" /\ pc = "aexit" /\ stop = "window") =>
              /\ scrape_ret = <<"return", job_cards_data>>
              /\ Len(fetchCalls) = current_page /\ Len(pagesFetched) = current_page)
    /\ [][(mode = "cards" /\ pc = "aexit") => pc' = "done"]_vars

\* C36 witness: under the window "1d ago" the walk ended at the second card
\* of page 1, whose age text is "just now"; it returned the first card alone
\* although the third card is 2 hours old and the page links to a next page.
C36_Witness ==
    /\ mode = "cards" /\ pc = "aexit" /\ stop = "window" /\ posted_date_limit = L1d
    /\ Len(job_cards) = 3 /\ card_i = 2
    /\ job_cards[1].date = T2h /\ job_cards[1].href = "job"
    /\ job_cards[2].date = TJustNow
    /\ job_cards[3].date = T2h /\ job_cards[3].href = "job"
    /\ pagesFetched[1].next /\ Len(pagesFetched) = 1
    /\ Len(scrape_ret[2]) = 1

\* --------------------------------------- properties of simultaneous calls
\* C18: whatever the interleaving of the calls, a browser is driven and quit
\* only by the call that launched it, and a call that is running holds a
\* browser of its own that is still open: the other calls' repairs and
\* teardowns did not touch it.
C18_CallsIsolated ==
    mode = "conc" =>
        /\ \A c \in Callers : \A b \in 1..Len(chrome[c]) :
              chrome[c][b].users \subseteq {c}
        /\ \A c \in Callers :
              calls[c].at = "run" =>
                  /\ calls[c].driver # <<>>
                  /\ calls[c].driver[1] = c
                  /\ chrome[c][calls[c].driver[2]].state = "open"
        /\ \A c \in Callers, d \in Callers :
              (c # d /\ calls[c].driver # <<>>) => calls[c].driver # calls[d].driver

C18_Witness ==
    /\ mode = "conc"
    /\ calls[1].at = "run" /\ calls[1].navs = 1 /\ Len(chrome[1]) = 1
    /\ chrome[1][1] = [state |-> "open", users |-> {1}]
    /\ calls[2].at = "done" /\ calls[2].navs = 2 /\ Len(chrome[2]) = 2
    /\ chrome[2][1].state = "closed" /\ chrome[2][2] = [state |-> "closed", users |-> {2}]

\* ------------------------------------------------ the end of the walk
\* The walk is past the fetch of its first page or at a later page.
Walking == pc \in {"page", "fetch", "fetch_ret", "cards", "next_page"}

\* What C25 says of every state: the walk is at a page after the first only
\* when the page before it carried the link to it; it ended for want of a next
\* page only on a page without that link, all of whose cards were processed;
\* and when the `async with` block is left without an exception the walk has
\* returned, for one of the four reasons.
WalkEndsAtLastPage ==
    mode = "cards" =>
        /\ (Walking /\ current_page > 1) =>
              /\ Len(pagesFetched) >= current_page - 1
              /\ pagesFetched[current_page - 1].next
        /\ stop = "nonext" =>
              /\ Len(pagesFetched) = current_page
              /\ ~pagesFetched[current_page].next
              /\ card_i = Len(job_cards) + 1
        /\ (pc = "aexit" /\ pending_exc = "none") =>
              /\ scrape_ret # <<>> /\ scrape_ret[1] = "return"
              /\ stop \in {"nonext", "window", "nosoup", "except"}

\* The steps the invocation can still take, at most: those left on the
\* current page (attempts of the fetch, cards of the loop) and those of the
\* pages the site can still serve.
PageSteps == MaxCards + ScrapeMaxRetries + 7
WalkRank ==
    CASE pc = "done" -> 0
      [] pc = "aexit" -> 1
      [] pc = "start" -> (MaxPages + 1) * PageSteps
      [] OTHER ->
           (MaxPages - current_page) * PageSteps
           + (CASE pc = "page" -> MaxCards + ScrapeMaxRetries + 6
                [] pc = "fetch" -> MaxCards + 5 + (max_retries - attempt)
                [] pc = "fetch_ret" -> MaxCards + 4
                [] pc = "cards" -> 3 + (Len(job_cards) + 1 - card_i)
                [] OTHER -> 2)

\* The invocation has a step to take. A linked card is appended or stops the
\* walk, whichever within_window gives: the guard the two actions share
\* stands for them.
HasStep ==
    \/ ENABLED (ConstructOk \/ Fetch \/ ScrapeFetchPage \/ ScrapeNoSoup \/ ScrapeExcept
                \/ ScrapePageLoaded \/ CardNoLink \/ CardRaises \/ CardsDone
                \/ NextPage \/ NoNextPage \/ AExitOk)
    \/ (pc = "cards" /\ card_i <= Len(job_cards) /\ job_cards[card_i].link = "href")

\* C25: the walk goes on to page N+1 exactly over the link of page N and ends
\* with "no next page" exactly on a page without the link; and the invocation
\* ends: until it has ended it always has a step to take, and every step
\* lowers the number of steps it can still take, which is finite because
\* the site serves finitely many pages, so that under the fairness of
\* LiveSpec every behaviour reaches the end.
C25_WalkTerminates ==
    /\ []WalkEndsAtLastPage
    /\ []((mode = "cards" /\ pc # "done") => (WalkRank > 0 /\ HasStep))
    /\ [][mode = "cards" => WalkRank' < WalkRank]_vars

\* C25 witness: the walk followed the link of page 1 and ended on page 2,
\* which has cards and no link.
C25_Witness ==
    /\ mode = "cards" /\ pc = "aexit" /\ stop = "nonext"
    /\ current_page = 2 /\ Len(pagesFetched) = 2
    /\ pagesFetched[1].next /\ ~pagesFetched[2].next
    /\ pagesFetched[2].cards # <<>>

\* ------------------------------------------------ properties of a fetch
\* The navigation attempts of the current fetch that failed.
FailedNavs == IF soup # <<>> THEN navs - 1 ELSE navs

\* C22: a fetch never makes more than max_retries navigation attempts; while
\* it runs every attempt made so far has failed; it returns markup right after
\* the first attempt that succeeds; and it returns None only when exactly
\* max_retries attempts were made and all of them failed.
C22_AttemptCap ==
    (mode = "cards" /\ pc \in {"fetch", "fetch_ret"}) =>
        /\ navs <= max_retries
        /\ pc = "fetch" => (navs = attempt /\ soup = <<>>)
        /\ (pc = "fetch_ret" /\ soup # <<>>) => (navs = attempt + 1 /\ ~fetch_exc)
        /\ (pc = "fetch_ret" /\ soup = <<>> /\ ~fetch_exc) =>
              (navs = max_retries /\ attempt = max_retries)

\* C22 witness: the walk's fetch returned markup at its second attempt.
C22_Witness ==
    /\ mode = "cards" /\ pc = "fetch_ret"
    /\ soup # <<>> /\ navs = 2 /\ attempt = 1 /\ max_retries = 3

\* C23: the waits of a fetch are 1, 2, 4, ... seconds, one after each failed
\* attempt that is followed by another attempt (whatever the failure was), and
\* none after the failure of the final attempt.
C23_BackoffDoubles ==
    (mode = "cards" /\ pc \in {"fetch", "fetch_ret"}) =>
        /\ sleeps = [k \in 1..Len(sleeps) |-> 2 ^ (k - 1)]
        /\ Len(sleeps) = (IF FailedNavs < max_retries THEN FailedNavs
                          ELSE max_retries - 1)

\* C23 witness: all three attempts failed, the last of them with a fatal
\* session error; the fetch waited 1 s and 2 s and nothing after the third.
C23_Witness ==
    /\ mode = "cards" /\ pc = "fetch_ret" /\ ~fetch_exc
    /\ navs = 3 /\ soup = <<>> /\ driverFatal /\ sleeps = <<1, 2>>

\* C24: within a fetch, the browser of an attempt differs from the browser
\* of the attempt before it exactly when that attempt failed with a fatal
\* session error; the browser is then one launched after the failure and
\* still running, and the one that failed was quit. After a timeout, another
\* WebDriverException or any other exception the next attempt has the same
\* browser, and after the last attempt the browser is left as it is.
C24_RepairOnFatalOnly ==
    (mode = "steps" /\ pc \in {"get", "get_wait", "read"} /\ prev_fail # <<>>) =>
        /\ (session # prev_fail[1].session) <=>
              (prev_fail[1].error = "session" /\ attempt < max_retries)
        /\ session # prev_fail[1].session =>
              /\ session = launched /\ session \notin closed
              /\ prev_fail[1].session \in closed

\* C24 witness: the second attempt of a fetch is under way on a new browser
\* after the first one failed with a fatal session error.
C24_Witness ==
    /\ mode = "steps" /\ pc = "get_wait" /\ attempt = 1
    /\ prev_fail = <<[error |-> "session", session |-> 1]>>
    /\ session = 2 /\ closed = {1}

\* C26: at most one navigation is running at any time; one is running while
\* the coroutine awaits it, and none when the coroutine is anywhere else,
\* unless the task was cancelled during the navigation, after which no
\* navigation is started.
C26_OneNavigationInFlight ==
    mode = "steps" =>
        /\ inflight <= 1
        /\ pc = "get_wait" => inflight = 1
        /\ pc \in {"start", "call", "get", "read", "except"} => inflight = 0

\* C26 witness: the second fetch call of the scraper is awaiting its second
\* navigation.
C26_Witness ==
    /\ mode = "steps" /\ pc = "get_wait" /\ inflight = 1
    /\ fetches = 2 /\ attempt = 1

\* The browsers a scraper launched that were not quit.
LiveBrowsers == {b \in 1..launched : b \notin closed}

C27_BlockingOpsOnExecutor ==
    mode = "steps" => \A o \in ops : o.on = "executor"

\* ------------------------------------------------ properties of the webhook
\* C21: the payload is POSTed only when the loop over all job ids is over and
\* carries everything collected; it is POSTed once, whether the POST fails
\* or not; and a failed delivery is reported to the caller of the endpoint.
C21_DeliveryFailureReported ==
    mode = "webhook" =>
        /\ Len(webhook_posts) <= 1
        /\ webhook_posts # <<>> =>
              (job_i > Len(job_ids) /\ webhook_posts[1].data = all_jobs_data)
        /\ webhook_ret # <<>> => Len(webhook_posts) = 1
        /\ (pc = "done" /\ webhook_ret = <<"error">>) => response = "delivery_error"

====
